---- MODULE Spec2Model ----
(***************************************************************************)
(* AniGiffy: the animated-GIF encode pipeline (services/gif_builder.py,    *)
(* models/project.py) as a state machine.  One behaviour is one call of    *)
(* GifBuilder.build_gif on a project chosen in Init; the actions are the   *)
(* consecutive blocks of build_gif, one loop iteration per step.           *)
(***************************************************************************)
EXTENDS Integers, Sequences, FiniteSets, TLC

(***************************************************************************)
(* Bounds of the model.                                                    *)
(***************************************************************************)
\* longest frame list enumerated frame by frame
MaxLen == 3

(***************************************************************************)
(* Program constants (config.py, QUOTAS).                                  *)
(***************************************************************************)
max_dimension == 2000
max_frames == 200
max_output_size == 20971520
max_upload_size == 10485760
max_total_storage == 52428800
max_images == 50

\* defaults of settings.get(...) in build_gif
DefaultTransitionTime == 0
DefaultTransitionSteps == 5

(***************************************************************************)
(* Inputs.  A frame is its source reference and its duration; the source   *)
(* reference is abstracted to what resolving and preparing it yields.      *)
(***************************************************************************)
\* "ok": resolves, exists and prepares; "missing": resolves but does not
\* exist; "traversal": safe_path raises ValueError; "corrupt": exists but
\* prepare_frame yields no image (returns None or raises).
FileKinds == {"ok", "missing", "traversal", "corrupt"}
Durations == {0, 30, 100}
Dimensions == {max_dimension, max_dimension + 1}
TransitionTimes == {0, 7, 40}
TransitionStepsSet == {0, 1, 3}
OutputSizes == {max_output_size - 1, max_output_size, max_output_size + 1}

Frame(f, d) == [file |-> f, duration |-> d]
Frames == {Frame(f, d) : f \in FileKinds, d \in Durations}

\* frame lists: every list of at most MaxLen frames, and one list that is
\* longer than max_frames
SeqsUpTo(S, n) == UNION {[1..m -> S] : m \in 0..n}
TooManyFrames == [n \in 1..(max_frames + 1) |-> Frame("ok", 100)]
FrameLists == SeqsUpTo(Frames, MaxLen) \cup {TooManyFrames}

\* settings dicts: width and height are always present (Project.__init__);
\* transitionTime / transitionSteps are present only when the caller put
\* them into the dict (neither, the time alone, or both)
BaseSettings == {[k \in {"width", "height"} |-> IF k = "width" THEN w ELSE h] :
                    w \in Dimensions, h \in Dimensions}
WithTransition(s, tt, ts) ==
    [k \in DOMAIN s \cup {"transitionTime", "transitionSteps"} |->
        IF k = "transitionTime" THEN tt
        ELSE IF k = "transitionSteps" THEN ts ELSE s[k]]
WithTransitionTime(s, tt) ==
    [k \in DOMAIN s \cup {"transitionTime"} |->
        IF k = "transitionTime" THEN tt ELSE s[k]]
SettingsSet == BaseSettings
    \cup {WithTransitionTime(s, tt) : s \in BaseSettings, tt \in TransitionTimes}
    \cup {WithTransition(s, tt, ts) : s \in BaseSettings,
                                      tt \in TransitionTimes, ts \in TransitionStepsSet}

\* dict.get(key, default)
Get(s, key, default) == IF key \in DOMAIN s THEN s[key] ELSE default

VARIABLES
    project,          \* the Project handed to build_gif: settings and frames
    pc,               \* position inside build_gif
    validate_calls,   \* number of calls of project.validate
    resolved,         \* indices of the frames handed to safe_path, in order
    prepared_frames,  \* images appended to prepared_frames
    durations,        \* durations appended alongside
    i,                \* index of the prepared frame the expansion loop is at
    gif_frames,       \* emitted frames
    gif_durations,    \* emitted durations
    output,           \* the file at output_path
    created,          \* whether a file was ever created at output_path
    file_size,        \* the size measured after the save (0 until measured)
    result,           \* the returned (success, message, file_size)
    entry,            \* the operation the behaviour is a run of
    seen,             \* what the requests reading the output directory got
    preview_limit,    \* the max_frames argument of create_preview_gif
    doc,              \* a persisted project document
    dumped,           \* the document to_dict produced
    path_args,        \* the arguments of a safe_path call
    path_result,      \* what the safe_path call raised or returned
    requests,         \* concurrent calls: the arguments of each build_gif call
    call_pc,          \* concurrent calls: each call's position
    locals,           \* concurrent calls: the local variables, by activation
    files,            \* concurrent calls: the output files, by path
    returned,         \* concurrent calls: what each call returned
    overlapped,       \* concurrent calls: a call stepped while the other was running
    image,            \* the RGBA frame handed to to_gif_format, pixel by pixel
    quantized,        \* what to_gif_format raised or returned for it
    heap,             \* the Frame objects made so far, by identity
    created_ids,      \* the id each Frame object was made with
    response,         \* the response of the /api/generate/full route
    blend_args,       \* the arguments of a create_transition_frames call
    blend_result,     \* what the call returned, and its arguments afterwards
    prepare_args,     \* the resized source, canvas width and threshold of a prepare_frame call
    prepare_result,   \* the canvas of the call before and after the alpha loop
    quota_args,       \* the file size and session statistics of a can_upload call
    quota_verdict,    \* the (allowed, message) the call returned
    session_files,    \* the files of one session: those it held at the start, uploads and outputs added
    http,             \* the upload and generate requests of the session, each with its position
    clock,            \* time.time(), in seconds
    ticks,            \* how often the clock has advanced
    session_dir,      \* the directory of one session: whether it exists and its st_mtime
    last_request,     \* when the session last received a request
    regular,          \* no two requests of the session were more than session_lifetime apart
    cleanup           \* the cleanup job: its position and its cutoff_time

concurrent == <<requests, call_pc, locals, files, returned, overlapped>>
pixels == <<image, quantized>>
\* the state of build_gif but its position
core == <<project, validate_calls, resolved, prepared_frames, durations, i,
          gif_frames, gif_durations, output, created, file_size, result>>
\* the state of the readers, preview, documents, paths, concurrent calls,
\* quantiser, project editing and route
earlier == <<entry, seen, preview_limit, doc, dumped, path_args, path_result,
             image, quantized, heap, created_ids, response,
             requests, call_pc, locals, files, returned, overlapped>>
objects == <<heap, created_ids>>
blending == <<blend_args, blend_result>>
preparing == <<prepare_args, prepare_result>>
quota == <<quota_args, quota_verdict>>
session == <<session_files, http>>
expiry == <<clock, ticks, session_dir, last_request, regular, cleanup>>
services == <<blending, preparing, quota, session, expiry>>
\* the state outside build_gif, which no step of build_gif changes
aux == <<entry, seen, preview_limit, doc, dumped, path_args, path_result, concurrent,
         pixels, objects, response, services>>

vars == <<project, pc, validate_calls, resolved, prepared_frames, durations,
          i, gif_frames, gif_durations, output, created, file_size, result, aux>>

NoFile == [exists |-> FALSE, size |-> 0]
File(n) == [exists |-> TRUE, size |-> n]
NoResult == [success |-> FALSE, message |-> "none", errors |-> <<>>, file_size |-> 0]
Failure(msg, errs) == [success |-> FALSE, message |-> msg, errors |-> errs, file_size |-> 0]
Success(n) == [success |-> TRUE, message |-> "GIF created successfully",
               errors |-> <<>>, file_size |-> n]

transition_time == Get(project.settings, "transitionTime", DefaultTransitionTime)
transition_steps == Get(project.settings, "transitionSteps", DefaultTransitionSteps)

\* no request has read the output directory
NoReader == seen = <<>>

\* no project document is involved
EmptyDict == [k \in {} |-> 0]
NoDocument == doc = EmptyDict /\ dumped = EmptyDict

\* no safe_path call is under study
NoPathCall == path_args = EmptyDict /\ path_result = EmptyDict

\* no concurrent calls are under study
NoCalls ==
    /\ requests = <<>>
    /\ call_pc = <<>>
    /\ locals = <<>>
    /\ files = <<>>
    /\ returned = <<>>
    /\ overlapped = FALSE

\* no frame is being quantised pixel by pixel
NoPixels == image = <<>> /\ quantized = EmptyDict

\* no Frame object has been made
NoObjects == heap = <<>> /\ created_ids = <<>>

\* the route has not answered
NoResponse == response = EmptyDict

\* no create_transition_frames call is under study
NoBlend ==
    blend_args = EmptyDict /\ blend_result = EmptyDict

\* no prepare_frame call is under study
NoPrepare ==
    prepare_args = EmptyDict /\ prepare_result = EmptyDict

\* no can_upload call is under study
NoQuota ==
    quota_args = EmptyDict /\ quota_verdict = EmptyDict

\* no request is being served
NoSession ==
    /\ session_files = EmptyDict
    /\ http = <<>>

\* no session ages
NoExpiry ==
    /\ clock = 0
    /\ ticks = 0
    /\ session_dir = EmptyDict
    /\ last_request = 0
    /\ regular = TRUE
    /\ cleanup = EmptyDict

Init ==
    /\ project \in [settings : SettingsSet, frames : FrameLists]
    /\ pc = "start"
    /\ validate_calls = 0
    /\ resolved = <<>>
    /\ prepared_frames = <<>>
    /\ durations = <<>>
    /\ i = 1
    /\ gif_frames = <<>>
    /\ gif_durations = <<>>
    /\ output = NoFile
    /\ created = FALSE
    /\ file_size = 0
    /\ result = NoResult
    /\ entry = "build_gif"
    /\ NoReader
    /\ preview_limit = 0
    /\ NoDocument
    /\ NoPathCall
    /\ NoCalls
    /\ NoPixels
    /\ NoObjects
    /\ NoResponse
    /\ NoBlend
    /\ NoPrepare
    /\ NoQuota
    /\ NoSession
    /\ NoExpiry

(***************************************************************************)
(* Project.validate: the errors it collects, in the order it appends them. *)
(***************************************************************************)
\* a duration check that lets a duration of 0 through: duration < 0
DurationErrors_negative(frames) ==
    LET bad == SelectSeq([n \in 1..Len(frames) |-> n],
                         LAMBDA n : frames[n].duration < 0)
    IN  [k \in 1..Len(bad) |-> <<"duration", bad[k]>>]

\* lines 185-188: one error per frame whose duration is below 1, in frame order
DurationErrors(frames) ==
    LET bad == SelectSeq([n \in 1..Len(frames) |-> n],
                         LAMBDA n : frames[n].duration < 1)
    IN  [k \in 1..Len(bad) |-> <<"duration", bad[k]>>]

validate(p) ==
    (IF p.settings["width"] > max_dimension THEN <<<<"width", 0>>>> ELSE <<>>)
    \o (IF p.settings["height"] > max_dimension THEN <<<<"height", 0>>>> ELSE <<>>)
    \o (IF Len(p.frames) > max_frames THEN <<<<"frame_count", 0>>>> ELSE <<>>)
    \o DurationErrors(p.frames)

\* the exit of build_gif: the result is returned and nothing else changes
Return(r) ==
    /\ pc' = "done"
    /\ result' = r

\* the emptiness check placed after the validation instead of before it
CheckEmpty_after_validate ==
    /\ pc = "start"
    /\ validate_calls' = validate_calls + 1
    /\ IF Len(validate(project)) # 0
       THEN Return(Failure("Project validation failed", validate(project)))
       ELSE IF Len(project.frames) = 0
       THEN Return(Failure("Project has no frames", <<>>))
       ELSE pc' = "transition_check" /\ UNCHANGED result
    /\ UNCHANGED <<project, resolved, prepared_frames, durations,
                   i, gif_frames, gif_durations, output, created, file_size>>
    /\ UNCHANGED aux

\* lines 60-61
CheckEmpty ==
    /\ pc = "start"
    /\ IF Len(project.frames) = 0
       THEN Return(Failure("Project has no frames", <<>>))
       ELSE pc' = "validate" /\ UNCHANGED result
    /\ UNCHANGED <<project, validate_calls, resolved, prepared_frames, durations,
                   i, gif_frames, gif_durations, output, created, file_size>>
    /\ UNCHANGED aux

\* lines 63-66
Validate ==
    /\ pc = "validate"
    /\ validate_calls' = validate_calls + 1
    /\ LET errors == validate(project) IN
       IF Len(errors) # 0
       THEN Return(Failure("Project validation failed", errors))
       ELSE pc' = "transition_check" /\ UNCHANGED result
    /\ UNCHANGED <<project, resolved, prepared_frames, durations,
                   i, gif_frames, gif_durations, output, created, file_size>>
    /\ UNCHANGED aux

\* a build that does not compare the frame durations with the transition time
FirstShortFrame_unchecked(frames, tt) == 0

\* lines 80-82: the first frame shorter than the transition (0 when none is)
FirstShortFrame(frames, tt) ==
    LET short == {n \in 1..Len(frames) : frames[n].duration < tt}
    IN  IF short = {} THEN 0
        ELSE CHOOSE n \in short : \A m \in short : n <= m

CheckTransition ==
    /\ pc = "transition_check"
    /\ IF transition_time > 0
       THEN LET short == FirstShortFrame(project.frames, transition_time) IN
            IF short # 0
            THEN Return(Failure("Frame duration must be >= transition time",
                                <<<<"transition_duration", short>>>>))
            ELSE IF transition_steps < 1
            THEN Return(Failure("Transition steps must be at least 1",
                                <<<<"transition_steps", 0>>>>))
            ELSE pc' = "prepare" /\ UNCHANGED result
       ELSE pc' = "prepare" /\ UNCHANGED result
    /\ UNCHANGED <<project, validate_calls, resolved, prepared_frames, durations,
                   i, gif_frames, gif_durations, output, created, file_size>>
    /\ UNCHANGED aux

\* the image prepare_frame yields for the n-th frame of the project
Image(n) == [kind |-> "image", src |-> n]

\* a loop that lacks the exists() test: a missing file counts as usable
Usable_without_exists(frame) == frame.file \in {"ok", "missing"}

\* lines 90-118: a frame is kept when safe_path accepts its reference, the
\* file exists and prepare_frame yields an image; otherwise the iteration
\* ends at a `continue` before either append
Usable(frame) == frame.file = "ok"

\* line 113
KeepImage(kept, frame, n) ==
    IF Usable(frame) THEN Append(kept, Image(n)) ELSE kept

\* the duration appended before the checks, also for a skipped frame
KeepDuration_always(kept, frame) == Append(kept, frame.duration)

\* line 114
KeepDuration(kept, frame) ==
    IF Usable(frame) THEN Append(kept, frame.duration) ELSE kept

\* lines 90-118, one iteration
PrepareFrame ==
    /\ pc = "prepare"
    /\ LET n == Len(resolved) + 1
           frame == project.frames[n]
       IN  /\ resolved' = Append(resolved, n)
           /\ prepared_frames' = KeepImage(prepared_frames, frame, n)
           /\ durations' = KeepDuration(durations, frame)
           /\ pc' = IF n = Len(project.frames) THEN "prepared_check" ELSE "prepare"
    /\ UNCHANGED <<project, validate_calls, i, gif_frames, gif_durations,
                   output, created, file_size, result>>
    /\ UNCHANGED aux

\* lines 120-121
CheckPrepared ==
    /\ pc = "prepared_check"
    /\ IF Len(prepared_frames) = 0
       THEN Return(Failure("No valid frames to create GIF", <<>>))
       ELSE pc' = "expand" /\ UNCHANGED result
    /\ UNCHANGED <<project, validate_calls, resolved, prepared_frames, durations,
                   i, gif_frames, gif_durations, output, created, file_size>>
    /\ UNCHANGED aux

\* a blend ratio of i / steps: the last transition frame is img2 itself
create_transition_frames_inclusive(img1, img2, steps) ==
    [s \in 1..steps |-> [kind |-> "blend", img1 |-> img1, img2 |-> img2,
                         num |-> s, den |-> steps]]

\* a transition loop that stops one step early: range(1, steps)
create_transition_frames_short(img1, img2, steps) ==
    [s \in 1..(steps - 1) |-> [kind |-> "blend", img1 |-> img1, img2 |-> img2,
                               num |-> s, den |-> steps + 1]]

\* lines 15-44: step s of `steps` blends img1 into img2 with factor s/(steps+1)
create_transition_frames(img1, img2, steps) ==
    [s \in 1..steps |-> [kind |-> "blend", img1 |-> img1, img2 |-> img2,
                         num |-> s, den |-> steps + 1]]

\* lines 124-134: the frame quantised to palette mode
to_gif_format(img) == [kind |-> "P", of |-> img]

\* a main frame that keeps its full duration although a transition follows
main_duration_full(current_duration, tt) == current_duration

\* line 147
main_duration(current_duration, tt) == current_duration - tt

\* transition durations that drop the remainder of the division
transition_durations_floor(tt, steps, n) ==
    [j \in 1..n |-> tt \div steps]

\* lines 159-166: the durations of a group of n transition frames
transition_durations(tt, steps, n) ==
    LET transition_frame_duration == tt \div steps
        remainder == tt % steps
    IN  [j \in 1..n |-> transition_frame_duration + (IF j = n THEN remainder ELSE 0)]

\* a next index that stops at the last frame instead of wrapping: min(i + 1, len - 1)
NextIndex_clamped(n, len) == IF n = len THEN len ELSE n + 1

\* (i + 1) % len(prepared_frames), on indices counted from 1
NextIndex(n, len) == (n % len) + 1

\* lines 140-170, one iteration
ExpandFrame ==
    /\ pc = "expand"
    /\ LET current_frame == prepared_frames[i]
           current_duration == durations[i]
           next_frame == prepared_frames[NextIndex(i, Len(prepared_frames))]
       IN  IF transition_time > 0
           THEN LET transition_frames ==
                        create_transition_frames(current_frame, next_frame,
                                                 transition_steps)
                    quantised == [j \in 1..Len(transition_frames) |->
                                      to_gif_format(transition_frames[j])]
                IN  /\ gif_frames' = Append(gif_frames, to_gif_format(current_frame))
                                       \o quantised
                    /\ gif_durations' =
                           Append(gif_durations,
                                  main_duration(current_duration, transition_time))
                           \o transition_durations(transition_time, transition_steps,
                                                   Len(transition_frames))
           ELSE /\ gif_frames' = Append(gif_frames, to_gif_format(current_frame))
                /\ gif_durations' = Append(gif_durations, current_duration)
    /\ i' = i + 1
    /\ pc' = IF i = Len(prepared_frames) THEN "save" ELSE "expand"
    /\ UNCHANGED <<project, validate_calls, resolved, prepared_frames, durations,
                   output, created, file_size, result>>
    /\ UNCHANGED aux

\* a save outside the try block: its exception leaves build_gif unhandled
Save_unhandled ==
    /\ pc = "save"
    /\ IF Len(gif_frames) = 0
       THEN /\ pc' = "raised"
            /\ UNCHANGED <<output, created, result>>
       ELSE \/ \E size \in OutputSizes :
                 /\ output' = File(size)
                 /\ created' = TRUE
                 /\ pc' = "size_check"
                 /\ UNCHANGED result
            \/ /\ pc' = "raised"
               /\ UNCHANGED <<output, created, result>>
            \/ \E size \in OutputSizes :
                 /\ output' = File(size)
                 /\ created' = TRUE
                 /\ pc' = "raised"
                 /\ UNCHANGED result
    /\ UNCHANGED <<project, validate_calls, resolved, prepared_frames, durations,
                   i, gif_frames, gif_durations, file_size>>
    /\ UNCHANGED aux

\* lines 172-191: first_frame.save(output_path, ...).  gif_frames[0] raises
\* on an empty list.  The save writes the whole file, or raises an I/O error
\* (unwritable directory, full disk): before the file was opened, leaving
\* nothing, or while writing or closing it, leaving a partial file.  Every
\* exception lands in the handler of lines 204-206, which returns the failure
\* and leaves the output path as it is.  stat() and unlink() on the file
\* just written (lines 194, 198) are taken to succeed.
Save ==
    /\ pc = "save"
    /\ IF Len(gif_frames) = 0
       THEN /\ Return(Failure("GIF creation failed", <<>>))
            /\ UNCHANGED <<output, created>>
       ELSE \/ \E size \in OutputSizes :
                 /\ output' = File(size)
                 /\ created' = TRUE
                 /\ pc' = "size_check"
                 /\ UNCHANGED result
            \/ /\ Return(Failure("GIF creation failed", <<>>))
               /\ UNCHANGED <<output, created>>
            \/ \E size \in OutputSizes :
                 /\ output' = File(size)
                 /\ created' = TRUE
                 /\ Return(Failure("GIF creation failed", <<>>))
    /\ UNCHANGED <<project, validate_calls, resolved, prepared_frames, durations,
                   i, gif_frames, gif_durations, file_size>>
    /\ UNCHANGED aux

\* a size check that also rejects an output of exactly max_output_size
CheckSize_inclusive ==
    /\ pc = "size_check"
    /\ file_size' = output.size
    /\ IF file_size' >= max_output_size
       THEN /\ output' = NoFile
            /\ Return(Failure("Generated GIF exceeds size limit", <<>>))
       ELSE /\ Return(Success(file_size'))
            /\ UNCHANGED output
    /\ UNCHANGED <<project, validate_calls, resolved, prepared_frames, durations,
                   i, gif_frames, gif_durations, created>>
    /\ UNCHANGED aux

\* lines 193-202
CheckSize ==
    /\ pc = "size_check"
    /\ file_size' = output.size
    /\ IF file_size' > max_output_size
       THEN /\ output' = NoFile
            /\ Return(Failure("Generated GIF exceeds size limit", <<>>))
       ELSE /\ Return(Success(file_size'))
            /\ UNCHANGED output
    /\ UNCHANGED <<project, validate_calls, resolved, prepared_frames, durations,
                   i, gif_frames, gif_durations, created>>
    /\ UNCHANGED aux

Next ==
    \/ CheckEmpty
    \/ Validate
    \/ CheckTransition
    \/ PrepareFrame
    \/ CheckPrepared
    \/ ExpandFrame
    \/ Save
    \/ CheckSize

Spec == Init /\ [][Next]_vars

(***************************************************************************)
(* Requests of the same session that read the output directory while the   *)
(* encode runs (routes/generate.py).  build_gif writes straight to         *)
(* output_path, the name under which these routes look the file up.        *)
(***************************************************************************)
Response(route, file) == [route |-> route, found |-> file.exists, size |-> file.size]

\* lines 224-249: the *.gif files of the output directory with their sizes
list_outputs ==
    /\ seen' = <<Response("list_outputs", output)>>
    /\ UNCHANGED <<project, pc, validate_calls, resolved, prepared_frames, durations,
                   i, gif_frames, gif_durations, output, created, file_size, result,
                   entry, preview_limit, doc, dumped, path_args, path_result, concurrent, pixels, objects, response, services>>

\* lines 162-183: 404 when the file does not exist, else its content
get_file ==
    /\ seen' = <<Response("get_file", output)>>
    /\ UNCHANGED <<project, pc, validate_calls, resolved, prepared_frames, durations,
                   i, gif_frames, gif_durations, output, created, file_size, result,
                   entry, preview_limit, doc, dumped, path_args, path_result, concurrent, pixels, objects, response, services>>

\* lines 193-214: as get_file, sent as an attachment
download_file ==
    /\ seen' = <<Response("download_file", output)>>
    /\ UNCHANGED <<project, pc, validate_calls, resolved, prepared_frames, durations,
                   i, gif_frames, gif_durations, output, created, file_size, result,
                   entry, preview_limit, doc, dumped, path_args, path_result, concurrent, pixels, objects, response, services>>

\* an encode of a project that gets as far as the prepare loop, with the
\* reading requests of its session arriving at any moment
InitReaders ==
    /\ Init
    /\ Len(project.frames) > 0
    /\ validate(project) = <<>>

NextReaders ==
    \/ Next
    \/ list_outputs
    \/ get_file
    \/ download_file

SpecReaders == InitReaders /\ [][NextReaders]_vars

(***************************************************************************)
(* GifBuilder.create_preview_gif.                                          *)
(***************************************************************************)
\* models/project.py lines 34-35: the parameters of Project.__init__
InitParams == {"name", "width", "height", "loop", "default_duration",
               "transparent", "background_color", "alpha_threshold"}

\* gif_builder.py lines 230-241: the keywords the preview project is built with
PreviewKeywords == {"name", "width", "height", "loop", "default_duration",
                    "transparent", "background_color", "alpha_threshold",
                    "transition_time", "transition_steps"}

\* a call with keyword arguments raises TypeError unless the function has a
\* parameter for each of them
Accepts(params, keywords) == keywords \subseteq params

Min(a, b) == IF a < b THEN a ELSE b

\* line 227: project.frames[:max_frames]
frames_to_use(frames, limit) == SubSeq(frames, 1, Min(Len(frames), limit))

PreviewLimits == {1, 2, 10}

InitPreview ==
    /\ project \in [settings : SettingsSet, frames : FrameLists]
    /\ pc = "preview"
    /\ validate_calls = 0
    /\ resolved = <<>>
    /\ prepared_frames = <<>>
    /\ durations = <<>>
    /\ i = 1
    /\ gif_frames = <<>>
    /\ gif_durations = <<>>
    /\ output = NoFile
    /\ created = FALSE
    /\ file_size = 0
    /\ result = NoResult
    /\ entry = "create_preview_gif"
    /\ NoReader
    /\ preview_limit \in PreviewLimits
    /\ NoDocument
    /\ NoPathCall
    /\ NoCalls
    /\ NoPixels
    /\ NoObjects
    /\ NoResponse
    /\ NoBlend
    /\ NoPrepare
    /\ NoQuota
    /\ NoSession
    /\ NoExpiry

\* lines 222-260.  The construction of the preview project (lines 230-241)
\* raises TypeError when Project.__init__ lacks a keyword it is given; the
\* handler of lines 258-260 turns that into the returned failure.  Otherwise
\* build_gif is entered with the truncated project.
create_preview_gif ==
    /\ pc = "preview"
    /\ IF Len(project.frames) = 0
       THEN /\ Return(Failure("Project has no frames", <<>>))
            /\ UNCHANGED project
       ELSE IF ~Accepts(InitParams, PreviewKeywords)
       THEN /\ Return(Failure("Preview creation failed", <<>>))
            /\ UNCHANGED project
       ELSE /\ project' = [project EXCEPT
                               !.frames = frames_to_use(project.frames, preview_limit)]
            /\ pc' = "start"
            /\ UNCHANGED result
    /\ UNCHANGED <<validate_calls, resolved, prepared_frames, durations,
                   i, gif_frames, gif_durations, output, created, file_size, aux>>

\* every call of create_preview_gif ends inside the action above: the
\* constructor call raises on each project with frames
NextPreview == create_preview_gif

SpecPreview == InitPreview /\ [][NextPreview]_vars

\* a call of either entry point of GifBuilder
InitEither == Init \/ InitPreview
NextEither == Next \/ NextPreview
SpecEither == InitEither /\ [][NextEither]_vars

(***************************************************************************)
(* The persisted project document (models/project.py): from_dict, to_dict. *)
(* A document is a dict: a function from its keys to their values.         *)
(***************************************************************************)
\* longest frames array of a document
MaxDocFrames == 2

\* datetime.utcnow().isoformat() at the time of the call
Now == "now"

\* the id Frame.__init__ makes up for the n-th frame: f"frame-{uuid4().hex[:8]}"
NewId(n) == <<"frame-new", n>>

Dict(keys, values) == [k \in keys |-> values[k]]

\* lines 10-13
Frame_init(file_path, duration, frame_id) ==
    [id |-> frame_id, file |-> file_path, duration |-> duration]

\* lines 22-28; `frame_id or ...` replaces a missing or empty id
Frame_from_dict(data, n) ==
    Frame_init(data["file"],
               Get(data, "duration", 100),
               IF "id" \in DOMAIN data /\ data["id"] # <<>> THEN data["id"] ELSE NewId(n))

\* lines 15-20
Frame_to_dict(frame) ==
    [id |-> frame.id, file |-> frame.file, duration |-> frame.duration]

\* lines 34-48: the settings hold exactly the seven parameters of __init__
Project_init(name, width, height, loop, default_duration, transparent, background_color, alpha_threshold) ==
    [name |-> name,
     created |-> Now,
     modified |-> Now,
     settings |-> [width |-> width, height |-> height, loop |-> loop,
                   defaultDuration |-> default_duration,
                   transparent |-> transparent,
                   backgroundColor |-> background_color,
                   alphaThreshold |-> alpha_threshold],
     frames |-> <<>>]

\* lines 133-156
from_dict(data) ==
    LET settings == Get(data, "settings", EmptyDict)
        made == Project_init(data["name"],
                             Get(settings, "width", 800),
                             Get(settings, "height", 600),
                             Get(settings, "loop", 0),
                             Get(settings, "defaultDuration", 100),
                             Get(settings, "transparent", FALSE),
                             Get(settings, "backgroundColor", "#FFFFFF"),
                             Get(settings, "alphaThreshold", 128))
        frame_data == Get(data, "frames", <<>>)
    IN  [made EXCEPT
            !.created = Get(data, "created", Now),
            !.modified = Get(data, "modified", Now),
            !.frames = [n \in 1..Len(frame_data) |-> Frame_from_dict(frame_data[n], n)]]

\* lines 114-122
to_dict(p) ==
    [name |-> p.name,
     created |-> p.created,
     modified |-> p.modified,
     settings |-> p.settings,
     frames |-> [n \in 1..Len(p.frames) |-> Frame_to_dict(p.frames[n])]]

\* documents: the settings of the data model in full, the settings without
\* the transition fields, or no width and height; frames with or without id
\* and duration
SettingsKeys == {"width", "height", "loop", "defaultDuration", "transparent",
                 "backgroundColor", "alphaThreshold"}
TransitionKeys == {"transitionTime", "transitionSteps"}

DocSettingsValues(w, tt, ts) ==
    [width |-> w, height |-> max_dimension, loop |-> 0, defaultDuration |-> 100,
     transparent |-> FALSE, backgroundColor |-> "#FFFFFF", alphaThreshold |-> 128,
     transitionTime |-> tt, transitionSteps |-> ts]

DocSettings ==
    {Dict(SettingsKeys \cup TransitionKeys, DocSettingsValues(w, tt, ts)) :
        w \in Dimensions, tt \in TransitionTimes, ts \in {1, 4}}
    \cup {Dict(SettingsKeys, DocSettingsValues(w, 0, 0)) : w \in Dimensions}
    \cup {Dict(SettingsKeys \ {"width", "height"}, DocSettingsValues(0, 0, 0))}

DocFrameValues(f, d) == [id |-> <<"frame", f, d>>, file |-> f, duration |-> d]

DocFrames ==
    {Dict(keys, DocFrameValues(f, d)) :
        keys \in {{"id", "file", "duration"}, {"file", "duration"}, {"id", "file"}},
        f \in {"ok", "missing"}, d \in Durations}

\* three frames of 100 ms
ThreeFrames == [n \in 1..3 |-> Dict({"id", "file", "duration"},
                                    [id |-> <<"frame", "ok", n>>, file |-> "ok",
                                     duration |-> 100])]

DocFrameLists == SeqsUpTo(DocFrames, MaxDocFrames) \cup {ThreeFrames}

DocValues(st, fl) ==
    [name |-> "animation", created |-> "t1", modified |-> "t2",
     settings |-> st, frames |-> fl]

Documents ==
    {Dict(keys, DocValues(st, fl)) :
        keys \in {{"name", "created", "modified", "settings", "frames"},
                  {"name", "settings", "frames"}},
        st \in DocSettings, fl \in DocFrameLists}

\* the Project object before from_dict has run
NoProject == [settings |-> EmptyDict, frames |-> <<>>]

InitDocument ==
    /\ doc \in Documents
    /\ dumped = EmptyDict
    /\ project = NoProject
    /\ pc = "from_dict"
    /\ validate_calls = 0
    /\ resolved = <<>>
    /\ prepared_frames = <<>>
    /\ durations = <<>>
    /\ i = 1
    /\ gif_frames = <<>>
    /\ gif_durations = <<>>
    /\ output = NoFile
    /\ created = FALSE
    /\ file_size = 0
    /\ result = NoResult
    /\ entry = "from_dict"
    /\ NoReader
    /\ preview_limit = 0
    /\ NoPathCall
    /\ NoCalls
    /\ NoPixels
    /\ NoObjects
    /\ NoResponse
    /\ NoBlend
    /\ NoPrepare
    /\ NoQuota
    /\ NoSession
    /\ NoExpiry

\* Project.from_dict(doc)
LoadDocument ==
    /\ pc = "from_dict"
    /\ project' = from_dict(doc)
    /\ pc' = "to_dict"
    /\ UNCHANGED <<validate_calls, resolved, prepared_frames, durations, i,
                   gif_frames, gif_durations, output, created, file_size, result, aux>>

\* project.to_dict()
DumpDocument ==
    /\ pc = "to_dict"
    /\ dumped' = to_dict(project)
    /\ pc' = "done"
    /\ UNCHANGED <<project, validate_calls, resolved, prepared_frames, durations, i,
                   gif_frames, gif_durations, output, created, file_size, result,
                   entry, seen, preview_limit, doc, path_args, path_result, concurrent, pixels, objects, response, services>>

NextDocument == LoadDocument \/ DumpDocument

SpecDocument == InitDocument /\ [][NextDocument]_vars

(***************************************************************************)
(* SessionManager.safe_path (services/session_manager.py).  A name is a    *)
(* sequence of characters, a path the sequence of its component names      *)
(* below the file system root; symbolic links are left out.                *)
(***************************************************************************)
\* longest directory or file name, and longest list of path components
MaxNameLen == 2
MaxParts == 3

Chars == {"a", "b"}
Names == UNION {[1..n -> Chars] : n \in 1..MaxNameLen}

\* the component "..", and the mark of a part that starts with "/"
DotDot == <<".", ".">>
Absolute == <<"/">>
Components == Names \cup {DotDot, Absolute}

\* self.user_data_dir, resolved
user_data_dir == <<<<"u">>>>

\* lines 26-28
get_session_dir(session_id) == Append(user_data_dir, session_id)

\* base / Path(*path_parts), then resolve(): an absolute part discards what
\* precedes it, ".." drops the last component (the root is its own parent)
RECURSIVE Resolve(_, _)
Resolve(path, parts) ==
    IF parts = <<>> THEN path
    ELSE LET c == Head(parts) IN
         Resolve(IF c = Absolute THEN <<>>
                 ELSE IF c = DotDot
                 THEN (IF path = <<>> THEN <<>> ELSE SubSeq(path, 1, Len(path) - 1))
                 ELSE Append(path, c),
                 Tail(parts))

\* str(path): "/" before every component, "/" alone for the root
RECURSIVE Str(_)
Str(path) ==
    IF path = <<>> THEN <<"/">>
    ELSE IF Len(path) = 1 THEN <<"/">> \o path[1]
    ELSE Str(SubSeq(path, 1, Len(path) - 1)) \o <<"/">> \o path[Len(path)]

\* str.startswith
StartsWith(text, prefix) ==
    Len(prefix) <= Len(text) /\ SubSeq(text, 1, Len(prefix)) = prefix

\* lines 78-90
safe_path(session_id, path_parts) ==
    LET base == get_session_dir(session_id)
        target == Resolve(base, path_parts)
    IN  IF ~StartsWith(Str(target), Str(base))
        THEN [raised |-> TRUE, target |-> <<>>]
        ELSE [raised |-> FALSE, target |-> target]

InitPath ==
    /\ path_args \in [session_id : Names, path_parts : SeqsUpTo(Components, MaxParts)]
    /\ path_result = EmptyDict
    /\ project = NoProject
    /\ pc = "safe_path"
    /\ validate_calls = 0
    /\ resolved = <<>>
    /\ prepared_frames = <<>>
    /\ durations = <<>>
    /\ i = 1
    /\ gif_frames = <<>>
    /\ gif_durations = <<>>
    /\ output = NoFile
    /\ created = FALSE
    /\ file_size = 0
    /\ result = NoResult
    /\ entry = "safe_path"
    /\ NoReader
    /\ preview_limit = 0
    /\ NoDocument
    /\ NoCalls
    /\ NoPixels
    /\ NoObjects
    /\ NoResponse
    /\ NoBlend
    /\ NoPrepare
    /\ NoQuota
    /\ NoSession
    /\ NoExpiry

CallSafePath ==
    /\ pc = "safe_path"
    /\ path_result' = safe_path(path_args.session_id, path_args.path_parts)
    /\ pc' = "done"
    /\ UNCHANGED <<project, validate_calls, resolved, prepared_frames, durations, i,
                   gif_frames, gif_durations, output, created, file_size, result,
                   entry, seen, preview_limit, doc, dumped, path_args, concurrent, pixels, objects, response, services>>

NextPath == CallSafePath

SpecPath == InitPath /\ [][NextPath]_vars

(***************************************************************************)
(* Two build_gif calls at once on the one GifBuilder of app.py, each for   *)
(* its own session and output path.  A step is a block of build_gif that   *)
(* ends where the call reads or writes a file; the lists build_gif works   *)
(* on are local variables of the call, GifBuilder itself holds only        *)
(* config and image_processor and never assigns them after __init__.       *)
(***************************************************************************)
\* longest frame list of a concurrent call
MaxCallLen == 2

Callers == {1, 2}
Other(c) == CHOOSE d \in Callers : d # c

\* the session of each request (session['id'], one per client)
SessionOf(c) == <<"session", c>>

\* routes/generate.py lines 120-128: <session dir>/output/<name>_<uuid>.gif
OutputPath(session_id) == <<session_id, "output", "animation.gif">>

ValidSettings == [k \in {"width", "height"} |-> max_dimension]
CallSettings == {ValidSettings, WithTransition(ValidSettings, 40, 1)}
CallFrames == {Frame("ok", 100), Frame("missing", 30)}
CallProjects == [settings : CallSettings, frames : SeqsUpTo(CallFrames, MaxCallLen)]

\* what first_frame.save does in a call: writes `size` bytes and returns,
\* or raises after having written `size` bytes (0: before opening the file)
SaveOutcomes ==
    {[raises |-> FALSE, size |-> max_output_size],
     [raises |-> FALSE, size |-> max_output_size + 1],
     [raises |-> TRUE, size |-> 0],
     [raises |-> TRUE, size |-> max_output_size]}

NoGif == [exists |-> FALSE, size |-> 0, frames |-> <<>>, durations |-> <<>>]
GifFile(size, frames, durs) ==
    [exists |-> TRUE, size |-> size, frames |-> frames, durations |-> durs]

\* the lists of build_gif: lines 87-88 and 137-138
EmptyLocals == [prepared_frames |-> <<>>, durations |-> <<>>,
                gif_frames |-> <<>>, gif_durations |-> <<>>]

\* the lists kept on the shared GifBuilder instead of in the call
Slot_shared(c) == 1

\* the activation that holds the local variables of call c: its own
Slot(c) == c

InitCalls ==
    /\ requests \in [Callers -> [project : CallProjects, io : SaveOutcomes]]
    /\ call_pc = [c \in Callers |-> "start"]
    /\ locals = [a \in {Slot(c) : c \in Callers} |-> EmptyLocals]
    /\ files = [f \in {OutputPath(SessionOf(c)) : c \in Callers} |-> NoGif]
    /\ returned = [c \in Callers |-> NoResult]
    /\ overlapped = FALSE
    /\ project = NoProject
    /\ pc = "calls"
    /\ validate_calls = 0
    /\ resolved = <<>>
    /\ prepared_frames = <<>>
    /\ durations = <<>>
    /\ i = 1
    /\ gif_frames = <<>>
    /\ gif_durations = <<>>
    /\ output = NoFile
    /\ created = FALSE
    /\ file_size = 0
    /\ result = NoResult
    /\ entry = "concurrent"
    /\ NoReader
    /\ preview_limit = 0
    /\ NoDocument
    /\ NoPathCall
    /\ NoPixels
    /\ NoObjects
    /\ NoResponse
    /\ NoBlend
    /\ NoPrepare
    /\ NoQuota
    /\ NoSession
    /\ NoExpiry

\* lines 59-82: the failure the checks before the first loop return, or
\* NoResult when they all pass
Checks(p) ==
    LET tt == Get(p.settings, "transitionTime", DefaultTransitionTime)
        steps == Get(p.settings, "transitionSteps", DefaultTransitionSteps)
    IN  IF Len(p.frames) = 0 THEN Failure("Project has no frames", <<>>)
        ELSE IF Len(validate(p)) # 0
        THEN Failure("Project validation failed", validate(p))
        ELSE IF tt > 0 /\ FirstShortFrame(p.frames, tt) # 0
        THEN Failure("Frame duration must be >= transition time",
                     <<<<"transition_duration", FirstShortFrame(p.frames, tt)>>>>)
        ELSE IF tt > 0 /\ steps < 1
        THEN Failure("Transition steps must be at least 1",
                     <<<<"transition_steps", 0>>>>)
        ELSE NoResult

\* lines 90-118, the whole loop from frame n on: the images appended to `kept`
RECURSIVE KeepImages(_, _, _, _)
KeepImages(kept, frames, session_id, n) ==
    IF n > Len(frames) THEN kept
    ELSE KeepImages(KeepImage(kept, frames[n], <<session_id, n>>),
                    frames, session_id, n + 1)

\* lines 90-118, the whole loop from frame n on: the durations appended to `kept`
RECURSIVE KeepDurations(_, _, _)
KeepDurations(kept, frames, n) ==
    IF n > Len(frames) THEN kept
    ELSE KeepDurations(KeepDuration(kept, frames[n]), frames, n + 1)

\* lines 140-170, the whole loop from index n on: the frames emitted
RECURSIVE ExpandFrames(_, _, _, _)
ExpandFrames(prepared, tt, steps, n) ==
    IF n > Len(prepared) THEN <<>>
    ELSE LET current_frame == prepared[n]
             next_frame == prepared[NextIndex(n, Len(prepared))]
             transition_frames ==
                 create_transition_frames(current_frame, next_frame, steps)
         IN  (IF tt > 0
              THEN <<to_gif_format(current_frame)>>
                   \o [j \in 1..Len(transition_frames) |->
                           to_gif_format(transition_frames[j])]
              ELSE <<to_gif_format(current_frame)>>)
             \o ExpandFrames(prepared, tt, steps, n + 1)

\* lines 140-170, the whole loop from index n on: the durations emitted
RECURSIVE ExpandDurations(_, _, _, _)
ExpandDurations(durs, tt, steps, n) ==
    IF n > Len(durs) THEN <<>>
    ELSE (IF tt > 0
          THEN <<main_duration(durs[n], tt)>> \o transition_durations(tt, steps, steps)
          ELSE <<durs[n]>>)
         \o ExpandDurations(durs, tt, steps, n + 1)

\* call c returns r
ReturnCall(c, r) ==
    /\ call_pc' = [call_pc EXCEPT ![c] = "done"]
    /\ returned' = [returned EXCEPT ![c] = r]

\* call c moves on to position p
Goto(c, p) ==
    /\ call_pc' = [call_pc EXCEPT ![c] = p]
    /\ UNCHANGED returned

\* a step of call c: the other call may be in the middle of its own run
StepOf(c) ==
    /\ overlapped' = (overlapped \/ call_pc[Other(c)] \notin {"start", "done"})
    /\ UNCHANGED <<requests, project, pc, validate_calls, resolved, prepared_frames,
                   durations, i, gif_frames, gif_durations, output, created,
                   file_size, result, entry, seen, preview_limit, doc, dumped,
                   path_args, path_result, pixels, objects, response, services>>

\* lines 59-88: the checks, then the two empty lists
BeginCall(c) ==
    /\ call_pc[c] = "start"
    /\ LET r == Checks(requests[c].project) IN
       IF r # NoResult
       THEN ReturnCall(c, r) /\ UNCHANGED locals
       ELSE /\ Goto(c, "prepare")
            /\ locals' = [locals EXCEPT ![Slot(c)].prepared_frames = <<>>,
                                        ![Slot(c)].durations = <<>>]
    /\ UNCHANGED files
    /\ StepOf(c)

\* lines 90-121: the loop over the session's source files, then the check
\* that a frame was kept
PrepareCall(c) ==
    /\ call_pc[c] = "prepare"
    /\ LET frames == requests[c].project.frames
           kept == KeepImages(locals[Slot(c)].prepared_frames, frames, SessionOf(c), 1)
           durs == KeepDurations(locals[Slot(c)].durations, frames, 1)
       IN  /\ locals' = [locals EXCEPT ![Slot(c)].prepared_frames = kept,
                                       ![Slot(c)].durations = durs]
           /\ IF Len(kept) = 0
              THEN ReturnCall(c, Failure("No valid frames to create GIF", <<>>))
              ELSE Goto(c, "expand")
    /\ UNCHANGED files
    /\ StepOf(c)

\* lines 137-170
ExpandCall(c) ==
    /\ call_pc[c] = "expand"
    /\ LET p == requests[c].project
           tt == Get(p.settings, "transitionTime", DefaultTransitionTime)
           steps == Get(p.settings, "transitionSteps", DefaultTransitionSteps)
       IN  locals' = [locals EXCEPT
               ![Slot(c)].gif_frames =
                   ExpandFrames(locals[Slot(c)].prepared_frames, tt, steps, 1),
               ![Slot(c)].gif_durations =
                   ExpandDurations(locals[Slot(c)].durations, tt, steps, 1)]
    /\ Goto(c, "save")
    /\ UNCHANGED files
    /\ StepOf(c)

\* lines 172-191 and, when save raises, 204-206
SaveCall(c) ==
    /\ call_pc[c] = "save"
    /\ LET io == requests[c].io
           path == OutputPath(SessionOf(c))
           mine == locals[Slot(c)]
       IN  IF Len(mine.gif_frames) = 0
           THEN ReturnCall(c, Failure("GIF creation failed", <<>>)) /\ UNCHANGED files
           ELSE IF io.raises
           THEN /\ ReturnCall(c, Failure("GIF creation failed", <<>>))
                /\ files' = IF io.size = 0 THEN files
                            ELSE [files EXCEPT ![path] = GifFile(io.size, <<>>, <<>>)]
           ELSE /\ Goto(c, "size_check")
                /\ files' = [files EXCEPT ![path] =
                                GifFile(io.size, mine.gif_frames, mine.gif_durations)]
    /\ UNCHANGED locals
    /\ StepOf(c)

\* lines 193-202
SizeCall(c) ==
    /\ call_pc[c] = "size_check"
    /\ LET path == OutputPath(SessionOf(c))
           size == files[path].size
       IN  IF size > max_output_size
           THEN /\ files' = [files EXCEPT ![path] = NoGif]
                /\ ReturnCall(c, Failure("Generated GIF exceeds size limit", <<>>))
           ELSE /\ ReturnCall(c, Success(size))
                /\ UNCHANGED files
    /\ UNCHANGED locals
    /\ StepOf(c)

NextCalls ==
    \E c \in Callers :
        \/ BeginCall(c)
        \/ PrepareCall(c)
        \/ ExpandCall(c)
        \/ SaveCall(c)
        \/ SizeCall(c)

SpecCalls == InitCalls /\ [][NextCalls]_vars

(***************************************************************************)
(* to_gif_format in transparent mode (gif_builder.py lines 123-128), pixel *)
(* by pixel.  An image is the sequence of its pixels, a pixel its colour   *)
(* and its alpha.                                                          *)
(***************************************************************************)
\* most pixels of an image
MaxPixels == 3

\* colors=255 of the convert call, and the index build_gif names as the
\* transparency of the saved GIF
colors == 255
transparency == 0

\* prepare_frame leaves (0,0,0,0) or an opaque pixel; Image.blend of two
\* such frames also yields alphas in between
Pixel(c, a) == [color |-> c, alpha |-> a]
PixelValues == {Pixel("black", 0)} \cup {Pixel(c, a) : c \in {"black", "red"}, a \in {128, 255}}
Images == UNION {[1..n -> PixelValues] : n \in 1..MaxPixels}

\* the pixel values of an image
Values(img) == {img[k] : k \in 1..Len(img)}

\* the palettes convert('P', palette=ADAPTIVE, colors=255) may build: no
\* more entries than the image has pixel values or than `colors`, numbered
\* from 0, and every pixel value mapped to one of them
Palettes(img) ==
    [Values(img) -> 0..(Min(Cardinality(Values(img)), colors) - 1)]

\* line 126: each pixel replaced by the palette index of its value
convert(img, palette) == [k \in 1..Len(img) |-> palette[img[k]]]

\* line 127: 255 where the alpha is 0, else 0
eval_mask(img) == [k \in 1..Len(img) |-> IF img[k].alpha = 0 THEN 255 ELSE 0]

\* line 128: paste(value, mask=mask) on a palette image
paste(indexed, value, mask) ==
    [k \in 1..Len(indexed) |-> IF mask[k] = 255 THEN value ELSE indexed[k]]

InitQuantize ==
    /\ image \in Images
    /\ quantized = EmptyDict
    /\ project = NoProject
    /\ pc = "to_gif_format"
    /\ validate_calls = 0
    /\ resolved = <<>>
    /\ prepared_frames = <<>>
    /\ durations = <<>>
    /\ i = 1
    /\ gif_frames = <<>>
    /\ gif_durations = <<>>
    /\ output = NoFile
    /\ created = FALSE
    /\ file_size = 0
    /\ result = NoResult
    /\ entry = "to_gif_format"
    /\ NoReader
    /\ preview_limit = 0
    /\ NoDocument
    /\ NoPathCall
    /\ NoCalls
    /\ NoObjects
    /\ NoResponse
    /\ NoBlend
    /\ NoPrepare
    /\ NoQuota
    /\ NoSession
    /\ NoExpiry

\* lines 124-128 for an RGBA frame with `transparent` set.  The quantiser
\* behind convert either builds a palette or, where it does not take RGBA
\* input, raises ValueError; the exception ends build_gif in its handler
\* and no frame is emitted.
ToGifFormat ==
    /\ pc = "to_gif_format"
    /\ \/ quantized' = [raised |-> TRUE, indices |-> <<>>]
       \/ \E palette \in Palettes(image) :
              quantized' = [raised |-> FALSE,
                            indices |-> paste(convert(image, palette), 0,
                                              eval_mask(image))]
    /\ pc' = "done"
    /\ UNCHANGED <<project, validate_calls, resolved, prepared_frames, durations, i,
                   gif_frames, gif_durations, output, created, file_size, result,
                   entry, seen, preview_limit, doc, dumped, path_args, path_result,
                   concurrent, image, objects, response, services>>

NextQuantize == ToGifFormat

SpecQuantize == InitQuantize /\ [][NextQuantize]_vars

(***************************************************************************)
(* The frame list of a Project under its editing methods                   *)
(* (models/project.py lines 50-89).  Frame objects live in `heap`, by the  *)
(* order of their making; project.frames is a list of references to them. *)
(***************************************************************************)
\* most Frame objects made by add_frame, and longest list given to
\* reorder_frames
MaxObjects == 2
MaxIds == 2

\* the optional duration of add_frame: absent (None) or given
GivenDurations == {<<>>, <<30>>}

\* the ids a caller may name: those add_frame can hand out, and one more
KnownIds == {NewId(n) : n \in 1..MaxObjects} \cup {<<"frame-none", 0>>}
FilePaths == {"a.png", "b.png"}

\* the keyword arguments of update_frame
Updates ==
    {EmptyDict}
    \cup {[k \in {"duration"} |-> 50]}
    \cup {[k \in {"file"} |-> "b.png"]}
    \cup {[k \in {"duration", "file"} |-> IF k = "duration" THEN 50 ELSE "b.png"]}

InitProject ==
    /\ project = Project_init("animation", 800, 600, 0, 100, FALSE, "#FFFFFF", 128)
    /\ heap = <<>>
    /\ created_ids = <<>>
    /\ pc = "project"
    /\ validate_calls = 0
    /\ resolved = <<>>
    /\ prepared_frames = <<>>
    /\ durations = <<>>
    /\ i = 1
    /\ gif_frames = <<>>
    /\ gif_durations = <<>>
    /\ output = NoFile
    /\ created = FALSE
    /\ file_size = 0
    /\ result = NoResult
    /\ entry = "project"
    /\ NoReader
    /\ preview_limit = 0
    /\ NoDocument
    /\ NoPathCall
    /\ NoCalls
    /\ NoPixels
    /\ NoResponse
    /\ NoBlend
    /\ NoPrepare
    /\ NoQuota
    /\ NoSession
    /\ NoExpiry

\* what no editing method touches
Untouched ==
    UNCHANGED <<pc, validate_calls, resolved, prepared_frames, durations, i,
                gif_frames, gif_durations, output, created, file_size, result,
                entry, seen, preview_limit, doc, dumped, path_args, path_result,
                concurrent, pixels, response, services>>

\* lines 50-58; the uuid of the new Frame is taken to be fresh
add_frame(file_path, duration) ==
    /\ Len(heap) < MaxObjects
    /\ LET n == Len(heap) + 1
           d == IF duration = <<>> THEN project.settings["defaultDuration"]
                ELSE duration[1]
           frame == Frame_init(file_path, d, NewId(n))
       IN  /\ heap' = Append(heap, frame)
           /\ created_ids' = Append(created_ids, frame.id)
           /\ project' = [project EXCEPT !.frames = Append(@, n), !.modified = Now]
    /\ Untouched

\* lines 60-63
remove_frame(frame_id) ==
    /\ project' = [project EXCEPT
                      !.frames = SelectSeq(@, LAMBDA f : heap[f].id # frame_id),
                      !.modified = Now]
    /\ UNCHANGED <<heap, created_ids>>
    /\ Untouched

\* line 68: {f.id: f for f in self.frames}, a later frame replacing an
\* earlier one of the same id
FrameMap(frames) ==
    [id \in {heap[frames[k]].id : k \in 1..Len(frames)} |->
        LET last == CHOOSE k \in 1..Len(frames) :
                        /\ heap[frames[k]].id = id
                        /\ \A m \in 1..Len(frames) : heap[frames[m]].id = id => m <= k
        IN  frames[last]]

\* lines 71-74, from the n-th id on
RECURSIVE NewOrder(_, _, _)
NewOrder(frame_ids, frame_map, n) ==
    IF n > Len(frame_ids) THEN <<>>
    ELSE (IF frame_ids[n] \in DOMAIN frame_map
          THEN <<frame_map[frame_ids[n]]>> ELSE <<>>)
         \o NewOrder(frame_ids, frame_map, n + 1)

\* lines 65-77
reorder_frames(frame_ids) ==
    /\ project' = [project EXCEPT
                      !.frames = NewOrder(frame_ids, FrameMap(@), 1),
                      !.modified = Now]
    /\ UNCHANGED <<heap, created_ids>>
    /\ Untouched

\* lines 79-89: the first frame of that id is changed in place
update_frame(frame_id, kwargs) ==
    LET found == {k \in 1..Len(project.frames) : heap[project.frames[k]].id = frame_id}
    IN  /\ IF found = {}
           THEN UNCHANGED <<heap, project>>
           ELSE LET first == CHOOSE k \in found : \A m \in found : k <= m
                    f == project.frames[first]
                IN  /\ heap' = [heap EXCEPT
                           ![f].duration = Get(kwargs, "duration", @),
                           ![f].file = Get(kwargs, "file", @)]
                    /\ project' = [project EXCEPT !.modified = Now]
        /\ UNCHANGED created_ids
        /\ Untouched

NextProject ==
    \/ \E file_path \in FilePaths, duration \in GivenDurations : add_frame(file_path, duration)
    \/ \E frame_id \in KnownIds : remove_frame(frame_id)
    \/ \E frame_ids \in SeqsUpTo(KnownIds, MaxIds) : reorder_frames(frame_ids)
    \/ \E frame_id \in KnownIds, kwargs \in Updates : update_frame(frame_id, kwargs)

SpecProject == InitProject /\ [][NextProject]_vars

(***************************************************************************)
(* The /api/generate/full route (routes/generate.py lines 92-159): the     *)
(* project document of the request is loaded with from_dict and handed to  *)
(* build_gif, whose steps are those of Next.                               *)
(***************************************************************************)
Reply(status, error) == [status |-> status, error |-> error]

InitRoute ==
    /\ doc \in Documents \cup {EmptyDict}
    /\ dumped = EmptyDict
    /\ response = EmptyDict
    /\ project = NoProject
    /\ pc = "generate_full"
    /\ validate_calls = 0
    /\ resolved = <<>>
    /\ prepared_frames = <<>>
    /\ durations = <<>>
    /\ i = 1
    /\ gif_frames = <<>>
    /\ gif_durations = <<>>
    /\ output = NoFile
    /\ created = FALSE
    /\ file_size = 0
    /\ result = NoResult
    /\ entry = "generate_full"
    /\ NoReader
    /\ preview_limit = 0
    /\ NoPathCall
    /\ NoCalls
    /\ NoPixels
    /\ NoObjects
    /\ NoBlend
    /\ NoPrepare
    /\ NoQuota
    /\ NoSession
    /\ NoExpiry

\* lines 97-128: up to the call of build_gif
generate_full ==
    /\ pc = "generate_full"
    /\ IF doc = EmptyDict
       THEN /\ response' = Reply(400, "No project data provided")
            /\ pc' = "responded"
            /\ UNCHANGED <<project, validate_calls>>
       ELSE /\ project' = from_dict(doc)
            /\ IF Len(project'.frames) = 0
               THEN /\ response' = Reply(400, "No frames")
                    /\ pc' = "responded"
                    /\ UNCHANGED validate_calls
               ELSE /\ validate_calls' = validate_calls + 1
                    /\ IF Len(validate(project')) # 0
                       THEN /\ response' = Reply(400, "Validation failed")
                            /\ pc' = "responded"
                       ELSE /\ pc' = "start"
                            /\ UNCHANGED response
    /\ UNCHANGED <<resolved, prepared_frames, durations, i, gif_frames, gif_durations,
                   output, created, file_size, result, entry, seen, preview_limit,
                   doc, dumped, path_args, path_result, concurrent, pixels, objects, services>>

\* lines 138-151: the answer made from what build_gif returned
Respond ==
    /\ pc = "done"
    /\ entry = "generate_full"
    /\ response' = IF result.success THEN Reply(200, "")
                   ELSE Reply(500, "Failed to generate GIF")
    /\ pc' = "responded"
    /\ UNCHANGED <<project, validate_calls, resolved, prepared_frames, durations, i,
                   gif_frames, gif_durations, output, created, file_size, result,
                   entry, seen, preview_limit, doc, dumped, path_args, path_result,
                   concurrent, pixels, objects, services>>

NextRoute == generate_full \/ Next \/ Respond

SpecRoute == InitRoute /\ [][NextRoute]_vars

(***************************************************************************)
(* create_transition_frames pixel by pixel (gif_builder.py lines 15-44).   *)
(* An image is the sequence of its channel values, 0..255; Image.blend     *)
(* works on every channel of every pixel alike.                            *)
(***************************************************************************)
\* most channel values of an image, and most transition steps
MaxChannels == 2
MaxSteps == 3

ChannelValues == {0, 100, 101, 255}
BlendImages == UNION {[1..n -> ChannelValues] : n \in 1..MaxChannels}

\* Image.blend(im1, im2, alpha) on 8-bit channels with alpha = num / den:
\* im1 + alpha * (im2 - im1), cut down to an integer
Image_blend(im1, im2, num, den) ==
    [k \in 1..Len(im1) |-> im1[k] + (((im2[k] - im1[k]) * num) \div den)]

InitBlend ==
    /\ blend_args \in {a \in [img1 : BlendImages, img2 : BlendImages,
                               steps : 1..MaxSteps] : Len(a.img1) = Len(a.img2)}
    /\ blend_result = EmptyDict
    /\ project = NoProject
    /\ pc = "create_transition_frames"
    /\ validate_calls = 0
    /\ resolved = <<>>
    /\ prepared_frames = <<>>
    /\ durations = <<>>
    /\ i = 1
    /\ gif_frames = <<>>
    /\ gif_durations = <<>>
    /\ output = NoFile
    /\ created = FALSE
    /\ file_size = 0
    /\ result = NoResult
    /\ entry = "create_transition_frames"
    /\ NoReader
    /\ preview_limit = 0
    /\ NoDocument
    /\ NoPathCall
    /\ NoCalls
    /\ NoPixels
    /\ NoObjects
    /\ NoResponse
    /\ NoPrepare
    /\ NoQuota
    /\ NoSession
    /\ NoExpiry

\* lines 26-44: both arguments are RGBA already, every step appends the
\* new image Image.blend returns, and the arguments are only read
CallCreateTransitionFrames ==
    /\ pc = "create_transition_frames"
    /\ LET a == blend_args
           transition_frames == create_transition_frames(a.img1, a.img2, a.steps)
       IN  blend_result' =
               [frames |-> transition_frames,
                rendered |-> [s \in 1..Len(transition_frames) |->
                                 Image_blend(transition_frames[s].img1,
                                             transition_frames[s].img2,
                                             transition_frames[s].num,
                                             transition_frames[s].den)],
                img1 |-> a.img1,
                img2 |-> a.img2]
    /\ pc' = "done"
    /\ UNCHANGED <<core, earlier, expiry, session, quota, preparing>>
    /\ UNCHANGED blend_args

NextBlend == CallCreateTransitionFrames

SpecBlend == InitBlend /\ [][NextBlend]_vars

(***************************************************************************)
(* prepare_frame with transparent = True (image_processor.py lines         *)
(* 123-173), on one row of pixels: the source as thumbnail() left it, the  *)
(* canvas resize_image pastes it on, and the alpha loop.                   *)
(***************************************************************************)
\* longest source row, and most padding the canvas adds to it
MaxSourcePixels == 2
MaxPadding == 2

SourcePixels == {Pixel(c, a) : c \in {"black", "red"}, a \in {0, 127, 128, 255}}
SourceRows == UNION {[1..n -> SourcePixels] : n \in 1..MaxSourcePixels}
AlphaThresholds == {0, 1, 128, 255}

\* resize_image lines 71-83, 'contain': a canvas of (0, 0, 0, 0) with the
\* image pasted at x = (target_width - img.width) // 2
resize_image(img, target_width) ==
    LET x == (target_width - Len(img)) \div 2
    IN  [k \in 1..target_width |->
            IF x < k /\ k <= x + Len(img) THEN img[k - x] ELSE Pixel("black", 0)]

\* an alpha test that also clears a pixel at the threshold: a <= alpha_threshold
binarize_inclusive(p, alpha_threshold) ==
    IF p.alpha <= alpha_threshold THEN Pixel("black", 0) ELSE Pixel(p.color, 255)

\* prepare_frame lines 165-171, one pixel
binarize(p, alpha_threshold) ==
    IF p.alpha < alpha_threshold THEN Pixel("black", 0) ELSE Pixel(p.color, 255)

InitPrepare ==
    /\ prepare_args \in {a \in [img : SourceRows,
                                target_width : 1..(MaxSourcePixels + MaxPadding),
                                alpha_threshold : AlphaThresholds] :
                            /\ Len(a.img) <= a.target_width
                            /\ a.target_width <= Len(a.img) + MaxPadding}
    /\ prepare_result = EmptyDict
    /\ project = NoProject
    /\ pc = "prepare_frame"
    /\ validate_calls = 0
    /\ resolved = <<>>
    /\ prepared_frames = <<>>
    /\ durations = <<>>
    /\ i = 1
    /\ gif_frames = <<>>
    /\ gif_durations = <<>>
    /\ output = NoFile
    /\ created = FALSE
    /\ file_size = 0
    /\ result = NoResult
    /\ entry = "prepare_frame"
    /\ NoReader
    /\ preview_limit = 0
    /\ NoDocument
    /\ NoPathCall
    /\ NoCalls
    /\ NoPixels
    /\ NoObjects
    /\ NoResponse
    /\ NoBlend
    /\ NoQuota
    /\ NoSession
    /\ NoExpiry

\* lines 147-173 with transparent = True
PrepareTransparent ==
    /\ pc = "prepare_frame"
    /\ LET a == prepare_args
           canvas == resize_image(a.img, a.target_width)
       IN  prepare_result' =
               [canvas |-> canvas,
                img |-> [k \in 1..Len(canvas) |-> binarize(canvas[k], a.alpha_threshold)]]
    /\ pc' = "done"
    /\ UNCHANGED <<core, earlier, expiry, session, quota, blending>>
    /\ UNCHANGED prepare_args

NextPrepare == PrepareTransparent

SpecPrepare == InitPrepare /\ [][NextPrepare]_vars

(***************************************************************************)
(* QuotaManager.can_upload (services/quota_manager.py) for an existing     *)
(* session whose files do not change during the call: the statistics       *)
(* get_session_stats returns are the same at each of its three reads.      *)
(***************************************************************************)
FileSizes == {0, 1, max_upload_size - 1, max_upload_size, max_upload_size + 1}
TotalSizes == {0, max_total_storage - max_upload_size,
               max_total_storage - max_upload_size + 1,
               max_total_storage - 1, max_total_storage, max_total_storage + 1}
ImageCounts == {0, max_images - 1, max_images, max_images + 1}

Stats(total_size, image_count) == [total_size |-> total_size, image_count |-> image_count]

\* lines 64-69
check_file_size(size) == ~(size > max_upload_size)

\* a count test that lets the session reach max_images + 1: image_count > max_images
check_image_count_quota_exclusive(stats) == ~(stats.image_count > max_images)

\* lines 30-45, stats not None
check_image_count_quota(stats) == ~(stats.image_count >= max_images)

\* lines 13-28, stats not None
check_storage_quota(stats) == ~(stats.total_size >= max_total_storage)

Verdict(allowed, message) == [allowed |-> allowed, message |-> message]

\* lines 123-145
can_upload(stats, size) ==
    IF ~check_file_size(size)
    THEN Verdict(FALSE, "File size exceeds maximum allowed")
    ELSE IF ~check_image_count_quota(stats)
    THEN Verdict(FALSE, "Maximum number of images reached")
    ELSE IF ~check_storage_quota(stats)
    THEN Verdict(FALSE, "Storage quota exceeded")
    ELSE IF stats.total_size + size > max_total_storage
    THEN Verdict(FALSE, "Adding this file would exceed storage quota")
    ELSE Verdict(TRUE, "OK")

InitQuota ==
    /\ quota_args \in [file_size : FileSizes,
                       stats : {Stats(t, n) : t \in TotalSizes, n \in ImageCounts}]
    /\ quota_verdict = EmptyDict
    /\ project = NoProject
    /\ pc = "can_upload"
    /\ validate_calls = 0
    /\ resolved = <<>>
    /\ prepared_frames = <<>>
    /\ durations = <<>>
    /\ i = 1
    /\ gif_frames = <<>>
    /\ gif_durations = <<>>
    /\ output = NoFile
    /\ created = FALSE
    /\ file_size = 0
    /\ result = NoResult
    /\ entry = "can_upload"
    /\ NoReader
    /\ preview_limit = 0
    /\ NoDocument
    /\ NoPathCall
    /\ NoCalls
    /\ NoPixels
    /\ NoObjects
    /\ NoResponse
    /\ NoBlend
    /\ NoPrepare
    /\ NoSession
    /\ NoExpiry

CallCanUpload ==
    /\ pc = "can_upload"
    /\ quota_verdict' = can_upload(quota_args.stats, quota_args.file_size)
    /\ pc' = "done"
    /\ UNCHANGED <<core, earlier, expiry, session, blending, preparing>>
    /\ UNCHANGED quota_args

NextQuota == CallCanUpload

SpecQuota == InitQuota /\ [][NextQuota]_vars

(***************************************************************************)
(* The upload and generate requests of one session, each served by its own *)
(* thread: routes/frames.py upload_image, routes/generate.py generate_full *)
(* and generate_preview, over the files of the session directory.          *)
(***************************************************************************)
MaxUploads == 2
Uploaders == 1..MaxUploads
Generator == MaxUploads + 1

\* a file of the session directory; the uuid of its name is the request's
StoredFile(name, size) == [name |-> name, size |-> size]

\* what a session holds after earlier uploads, none of them refused
HeldAtStart ==
    {Stats(0, 0),
     Stats(max_images - 1, max_images - 1),
     Stats(max_total_storage - max_upload_size, max_images - 1)}

UploadRequests ==
    [kind : {"upload"}, pc : {"start"}, size : {1, max_upload_size},
     extension_ok : BOOLEAN, save_raises : BOOLEAN, image_ok : BOOLEAN, status : {0}]

\* size is the size of the GIF the encode writes, 0 when it writes none
GenerateRequests ==
    [kind : {"preview", "full"}, pc : {"start"},
     size : {0, 1, max_output_size, max_output_size + 1},
     extension_ok : {TRUE}, save_raises : {FALSE}, image_ok : {TRUE}, status : {0}]

RECURSIVE TotalSize(_)
TotalSize(stored) ==
    IF stored = {} THEN 0
    ELSE LET f == CHOOSE g \in stored : TRUE
         IN  f.size + TotalSize(stored \ {f})

\* session_manager.py lines 121-157: every file below the session directory
\* counts for total_size, the entries of uploads/ for image_count
get_session_stats(stored) ==
    Stats(stored.held.total_size + TotalSize(stored.uploads) + TotalSize(stored.output),
          stored.held.image_count + Cardinality(stored.uploads))

InitSession ==
    /\ session_files \in [held : HeldAtStart, uploads : {{}}, output : {{}}]
    /\ http \in {q \in [Uploaders \cup {Generator} -> UploadRequests \cup GenerateRequests] :
                    /\ \A r \in Uploaders : q[r].kind = "upload"
                    /\ q[Generator].kind # "upload"}
    /\ project = NoProject
    /\ pc = "serving"
    /\ validate_calls = 0
    /\ resolved = <<>>
    /\ prepared_frames = <<>>
    /\ durations = <<>>
    /\ i = 1
    /\ gif_frames = <<>>
    /\ gif_durations = <<>>
    /\ output = NoFile
    /\ created = FALSE
    /\ file_size = 0
    /\ result = NoResult
    /\ entry = "session"
    /\ NoReader
    /\ preview_limit = 0
    /\ NoDocument
    /\ NoPathCall
    /\ NoCalls
    /\ NoPixels
    /\ NoObjects
    /\ NoResponse
    /\ NoBlend
    /\ NoPrepare
    /\ NoQuota
    /\ NoExpiry

\* the request goes on at position `at`
Goes(r, at) == http' = [http EXCEPT ![r].pc = at]

\* the request is answered with `status`
Answers(r, status) == http' = [http EXCEPT ![r].pc = "done", ![r].status = status]

\* an unlink that leaves the file where it is
unlink_kept(stored, name) == stored

\* frames.py line 61, file_path.unlink()
unlink(stored, name) ==
    [stored EXCEPT !.uploads = {f \in stored.uploads : f.name # name}]

\* frames.py lines 28-45: the extension test, then can_upload on the
\* statistics of the session as they are now
CheckUpload(r) ==
    /\ entry = "session"
    /\ r \in Uploaders
    /\ http[r].pc = "start"
    /\ IF ~http[r].extension_ok
       THEN Answers(r, 400)
       ELSE IF ~can_upload(get_session_stats(session_files), http[r].size).allowed
       THEN Answers(r, 429)
       ELSE Goes(r, "save")
    /\ UNCHANGED session_files
    /\ UNCHANGED pc
    /\ UNCHANGED <<core, earlier, expiry, blending, preparing, quota>>

\* frames.py lines 47-56 and 81-86: file.save under a fresh name; a save
\* that raises is answered 500 with whatever it wrote left in place
SaveUpload(r) ==
    /\ entry = "session"
    /\ r \in Uploaders
    /\ http[r].pc = "save"
    /\ IF http[r].save_raises
       THEN /\ Answers(r, 500)
            /\ \E written \in {0, 1} :
                   session_files' =
                       IF written = 0 THEN session_files
                       ELSE [session_files EXCEPT
                                !.uploads = @ \cup {StoredFile(r, written)}]
       ELSE /\ Goes(r, "validate")
            /\ session_files' =
                   [session_files EXCEPT
                       !.uploads = @ \cup {StoredFile(r, http[r].size)}]
    /\ UNCHANGED pc
    /\ UNCHANGED <<core, earlier, expiry, blending, preparing, quota>>

\* frames.py lines 58-79: an image that does not validate is deleted
ValidateUpload(r) ==
    /\ entry = "session"
    /\ r \in Uploaders
    /\ http[r].pc = "validate"
    /\ IF http[r].image_ok
       THEN Answers(r, 200) /\ UNCHANGED session_files
       ELSE Answers(r, 400) /\ session_files' = unlink(session_files, r)
    /\ UNCHANGED pc
    /\ UNCHANGED <<core, earlier, expiry, blending, preparing, quota>>

\* generate.py lines 16-89 and 92-159: the GIF is written below output/
\* with no look at the quota; build_gif deletes a GIF over max_output_size,
\* and create_preview_gif fails before it writes (gif_builder.py 239-240)
Generate(r) ==
    /\ entry = "session"
    /\ r = Generator
    /\ http[r].pc = "start"
    /\ IF http[r].kind = "full" /\ 0 < http[r].size /\ http[r].size <= max_output_size
       THEN /\ Answers(r, 200)
            /\ session_files' =
                   [session_files EXCEPT
                       !.output = @ \cup {StoredFile(r, http[r].size)}]
       ELSE Answers(r, 500) /\ UNCHANGED session_files
    /\ UNCHANGED pc
    /\ UNCHANGED <<core, earlier, expiry, blending, preparing, quota>>

NextSession ==
    \E r \in Uploaders \cup {Generator} :
        \/ CheckUpload(r)
        \/ SaveUpload(r)
        \/ ValidateUpload(r)
        \/ Generate(r)

SpecSession == InitSession /\ [][NextSession]_vars

(***************************************************************************)
(* The age of a session directory: requests touch it (app.py               *)
(* ensure_session), the scheduled job cleanup_old_sessions removes it.     *)
(***************************************************************************)
MaxTicks == 4

\* session_manager.py line 16 with config.py line 40: 168 hours in seconds
session_lifetime == 168 * 3600

\* the steps the clock takes between two events
Elapsed == {1, session_lifetime - 1, session_lifetime}

Directory(exists, mtime) == [exists |-> exists, mtime |-> mtime]

Job(at, cutoff_time) == [pc |-> at, cutoff_time |-> cutoff_time]

\* session_manager.py lines 60-76, for a session id that is not empty
validate_session(dir, now) ==
    IF ~dir.exists THEN FALSE
    ELSE IF now - dir.mtime > session_lifetime THEN FALSE
    ELSE TRUE

\* session_manager.py line 107
is_old(created_time, cutoff_time) == created_time < cutoff_time

\* the first request of the session has just made its directory
InitLifetime ==
    /\ clock = 0
    /\ ticks = 0
    /\ session_dir = Directory(TRUE, 0)
    /\ last_request = 0
    /\ regular = TRUE
    /\ cleanup = Job("idle", 0)
    /\ project = NoProject
    /\ pc = "serving"
    /\ validate_calls = 0
    /\ resolved = <<>>
    /\ prepared_frames = <<>>
    /\ durations = <<>>
    /\ i = 1
    /\ gif_frames = <<>>
    /\ gif_durations = <<>>
    /\ output = NoFile
    /\ created = FALSE
    /\ file_size = 0
    /\ result = NoResult
    /\ entry = "lifetime"
    /\ NoReader
    /\ preview_limit = 0
    /\ NoDocument
    /\ NoPathCall
    /\ NoCalls
    /\ NoPixels
    /\ NoObjects
    /\ NoResponse
    /\ NoBlend
    /\ NoPrepare
    /\ NoQuota
    /\ NoSession

Elsewhere == UNCHANGED <<pc, core, earlier, blending, preparing, quota, session>>

\* time passes
Tick ==
    /\ entry = "lifetime"
    /\ ticks < MaxTicks
    /\ \E d \in Elapsed : clock' = clock + d
    /\ ticks' = ticks + 1
    /\ UNCHANGED <<session_dir, last_request, regular, cleanup>>
    /\ Elsewhere

\* app.py lines 57-66 for a request that carries the session id, with
\* update_session_access (session_manager.py lines 53-58): the directory is
\* touched if it exists
ensure_session ==
    /\ entry = "lifetime"
    /\ session_dir' = IF session_dir.exists
                      THEN Directory(TRUE, clock)
                      ELSE session_dir
    /\ regular' = (regular /\ clock - last_request <= session_lifetime)
    /\ last_request' = clock
    /\ UNCHANGED <<clock, ticks, cleanup>>
    /\ Elsewhere

\* session_manager.py line 97
ComputeCutoff ==
    /\ entry = "lifetime"
    /\ cleanup.pc = "idle"
    /\ cleanup' = Job("stat", clock - session_lifetime)
    /\ UNCHANGED <<clock, ticks, session_dir, last_request, regular>>
    /\ Elsewhere

\* session_manager.py lines 101-107: the directory, if iterdir lists it,
\* is examined
StatSession ==
    /\ entry = "lifetime"
    /\ cleanup.pc = "stat"
    /\ cleanup' = IF session_dir.exists /\ is_old(session_dir.mtime, cleanup.cutoff_time)
                  THEN Job("rmtree", cleanup.cutoff_time)
                  ELSE Job("idle", cleanup.cutoff_time)
    /\ UNCHANGED <<clock, ticks, session_dir, last_request, regular>>
    /\ Elsewhere

\* session_manager.py lines 108-113: rmtree, whose failure is logged
RemoveSession ==
    /\ entry = "lifetime"
    /\ cleanup.pc = "rmtree"
    /\ \E fails \in BOOLEAN :
           session_dir' = IF fails THEN session_dir
                          ELSE Directory(FALSE, session_dir.mtime)
    /\ cleanup' = Job("idle", cleanup.cutoff_time)
    /\ UNCHANGED <<clock, ticks, last_request, regular>>
    /\ Elsewhere

NextLifetime ==
    \/ Tick
    \/ ensure_session
    \/ ComputeCutoff
    \/ StatSession
    \/ RemoveSession

SpecLifetime == InitLifetime /\ [][NextLifetime]_vars

(***************************************************************************)
(* Properties of build_gif.                                                *)
(***************************************************************************)
\* the expansion loop has run to its end: gif_frames is what is serialised
Emitted == pc \in {"save", "size_check"} \/ (pc = "done" /\ i > 1)

\* frames emitted per prepared frame
GroupSize == IF transition_time > 0 THEN 1 + transition_steps ELSE 1

\* position in gif_frames of the main frame of prepared frame g
MainIndex(g) == (g - 1) * GroupSize + 1

\* prepared frames whose iteration of the expansion loop is over
Expanded == 1..(i - 1)

RECURSIVE SumSeq(_)
SumSeq(q) == IF q = <<>> THEN 0 ELSE Head(q) + SumSeq(Tail(q))

FrameCount(n) ==
    IF transition_time > 0 THEN n + n * transition_steps ELSE n

\* C1 as stated: once the expansion is over, the number of emitted frames is
\* N + N*transitionSteps (transitionTime > 0) or N (transitionTime = 0), N
\* being the number of frames of the project.
C1_CountOfProjectFrames ==
    Emitted => Len(gif_frames) = FrameCount(Len(project.frames))

\* C1 as amended: the same count with N the number of prepared frames, the
\* frames of the project that were not skipped.
C1_CountOfPreparedFrames ==
    Emitted => /\ Len(gif_frames) = FrameCount(Len(prepared_frames))
               /\ Len(gif_durations) = Len(gif_frames)

C1_Witness ==
    /\ pc = "done" /\ result.success
    /\ transition_time > 0
    /\ Len(prepared_frames) = 2
    /\ Len(project.frames) = 3
    /\ Len(gif_frames) = 2 + 2 * transition_steps

\* C2: with transitionTime > 0 and transitionSteps >= 1, the transition
\* frames after each main frame last floor(transitionTime / transitionSteps)
\* each, the last one additionally transitionTime mod transitionSteps, and
\* the durations of the group sum to transitionTime.
C2_TransitionDurations ==
    (transition_time > 0 /\ transition_steps >= 1) =>
        \A g \in Expanded :
            LET base == MainIndex(g)
                group == SubSeq(gif_durations, base + 1, base + transition_steps)
            IN  /\ Len(gif_durations) >= base + transition_steps
                /\ \A j \in 1..transition_steps :
                     /\ gif_frames[base + j].of.kind = "blend"
                     /\ group[j] = (transition_time \div transition_steps)
                                   + (IF j = transition_steps
                                      THEN transition_time % transition_steps
                                      ELSE 0)
                /\ SumSeq(group) = transition_time

C2_Witness ==
    /\ pc = "done" /\ result.success
    /\ transition_time = 7 /\ transition_steps = 3
    /\ Len(prepared_frames) = 2
    /\ SubSeq(gif_durations, 2, 4) = <<2, 2, 3>>
    /\ SubSeq(gif_durations, 6, 8) = <<2, 2, 3>>

\* C3: every prepared frame is emitted as a main frame, with the full
\* duration of its project frame when transitionTime = 0 and with that
\* duration minus transitionTime otherwise; the main frames come in the
\* order of the prepared frames, each directly followed by its own
\* transition frames.
C3_MainFrames ==
    /\ \A g \in Expanded :
         LET base == MainIndex(g)
             own == project.frames[prepared_frames[g].src].duration
         IN  /\ Len(gif_frames) >= base + GroupSize - 1
             /\ gif_frames[base] = to_gif_format(prepared_frames[g])
             /\ gif_durations[base] =
                    IF transition_time > 0 THEN own - transition_time ELSE own
             /\ \A j \in 1..(GroupSize - 1) :
                    /\ gif_frames[base + j].of.kind = "blend"
                    /\ gif_frames[base + j].of.img1 = prepared_frames[g]
    /\ Emitted => /\ i = Len(prepared_frames) + 1
                  /\ Len(gif_frames) = Len(prepared_frames) * GroupSize

C3_Witness ==
    /\ pc = "done" /\ result.success
    /\ transition_time = 7 /\ transition_steps = 1
    /\ Len(prepared_frames) = 2
    /\ gif_durations = <<23, 7, 93, 7>>
\* the invariants of the data model a project violates: width and height
\* at most max_dimension, at most max_frames frames, every duration at least
\* 1, and with transitionTime > 0 every duration at least transitionTime and
\* transitionSteps at least 1
InvariantViolations(p) ==
    LET tt == Get(p.settings, "transitionTime", DefaultTransitionTime)
        ts == Get(p.settings, "transitionSteps", DefaultTransitionSteps)
    IN  {<<"width", 0>> : x \in {1} \cap {IF p.settings["width"] > max_dimension THEN 1 ELSE 0}}
        \cup {<<"height", 0>> : x \in {1} \cap {IF p.settings["height"] > max_dimension THEN 1 ELSE 0}}
        \cup {<<"frame_count", 0>> : x \in {1} \cap {IF Len(p.frames) > max_frames THEN 1 ELSE 0}}
        \cup {<<"duration", n>> : n \in {m \in 1..Len(p.frames) : p.frames[m].duration < 1}}
        \cup {<<"transition_duration", n>> :
                 n \in {m \in 1..Len(p.frames) : tt > 0 /\ p.frames[m].duration < tt}}
        \cup {<<"transition_steps", 0>> : x \in {1} \cap {IF tt > 0 /\ ts < 1 THEN 1 ELSE 0}}

NothingPrepared == resolved = <<>> /\ prepared_frames = <<>> /\ durations = <<>>
NothingWritten == ~created /\ ~output.exists

\* C4: on a project without frames build_gif returns the no-frames failure
\* without having called validate, without having resolved any source and
\* without having created a file at the output path.
C4_NoFrames ==
    Len(project.frames) = 0 =>
        /\ validate_calls = 0
        /\ NothingPrepared
        /\ NothingWritten
        /\ pc \in {"start", "done"}
        /\ pc = "done" => result = Failure("Project has no frames", <<>>)

C4_Witness ==
    /\ pc = "done"
    /\ Len(project.frames) = 0
    /\ project.settings["width"] > max_dimension
    /\ result.message = "Project has no frames"

\* C5: when no frame of a valid, non-empty project has a source that exists
\* (or prepares), build_gif returns the no-valid-frames failure and no file
\* is created at the output path.
C5_NoValidFrames ==
    (/\ Len(project.frames) > 0
     /\ InvariantViolations(project) = {}
     /\ \A n \in 1..Len(project.frames) : project.frames[n].file # "ok") =>
        /\ NothingWritten
        /\ pc \notin {"expand", "save", "size_check"}
        /\ pc = "done" => result = Failure("No valid frames to create GIF", <<>>)

C5_Witness ==
    /\ pc = "done"
    /\ Len(project.frames) = 2
    /\ \A n \in 1..2 : project.frames[n].file = "missing"
    /\ Len(resolved) = 2
    /\ result.message = "No valid frames to create GIF"

\* the frames among the first n of the project that are not skipped
KeptIndices(n) ==
    SelectSeq([m \in 1..n |-> m], LAMBDA m : project.frames[m].file = "ok")

\* C6: a frame whose source is missing, rejected by safe_path or not
\* preparable is skipped and the loop goes on to the next frame; the kept
\* frames are in their original relative order and each is paired with its
\* own duration.
C6_SkipKeepsOrder ==
    LET kept == KeptIndices(Len(resolved)) IN
    /\ prepared_frames = [k \in 1..Len(kept) |-> Image(kept[k])]
    /\ durations = [k \in 1..Len(kept) |-> project.frames[kept[k]].duration]
    /\ resolved = [m \in 1..Len(resolved) |-> m]
    /\ (pc \in {"prepared_check", "expand", "save", "size_check"}
        \/ (pc = "done" /\ resolved # <<>>)) =>
           Len(resolved) = Len(project.frames)
    /\ (pc = "done" /\ prepared_frames # <<>>) =>
           result.message \notin {"No valid frames to create GIF",
                                  "Project validation failed"}

C6_Witness ==
    /\ pc = "done" /\ result.success
    /\ Len(project.frames) = 3
    /\ project.frames[1] = Frame("ok", 30)
    /\ project.frames[2].file \in {"missing", "traversal", "corrupt"}
    /\ project.frames[2].duration = 100
    /\ project.frames[3] = Frame("ok", 100)
    /\ durations = <<30, 100>>
    /\ prepared_frames = <<Image(1), Image(3)>>

\* C7: a project that violates an invariant of the data model is rejected
\* by build_gif: no frame is resolved or prepared, nothing is written to the
\* output path, and the call returns a failure.
C7_RejectsInvalid ==
    InvariantViolations(project) # {} =>
        /\ NothingPrepared
        /\ NothingWritten
        /\ gif_frames = <<>>
        /\ pc \in {"start", "validate", "transition_check", "done"}
        /\ pc = "done" => (~result.success /\ result.file_size = 0)

C7_Witness ==
    /\ pc = "done"
    /\ Len(project.frames) = 2
    /\ InvariantViolations(project) = {<<"transition_duration", 2>>}
    /\ ~result.success

\* the violations the returned message names
Reported == {result.errors[k] : k \in 1..Len(result.errors)}

\* C8: the failure build_gif returns for a project that violates invariants
\* of the data model reports every violated invariant.
C8_ReportsEveryViolation ==
    (pc = "done" /\ Len(project.frames) > 0 /\ InvariantViolations(project) # {}) =>
        Reported = InvariantViolations(project)

\* C9: an output larger than max_output_size is deleted and the call fails
\* with size 0; an output of at most max_output_size is kept and the call
\* succeeds with the size of the file.
C9_SizeBudget ==
    /\ pc = "done" /\ file_size > 0 =>
         IF file_size > max_output_size
         THEN /\ ~output.exists
              /\ result = Failure("Generated GIF exceeds size limit", <<>>)
              /\ result.file_size = 0
         ELSE /\ output = File(file_size)
              /\ result = Success(file_size)
    /\ (pc = "done" /\ result.success) =>
         (output.exists /\ output.size <= max_output_size
          /\ result.file_size = output.size)
    /\ pc = "size_check" => output.exists

C9_Witness ==
    /\ pc = "done"
    /\ file_size = max_output_size
    /\ result = Success(max_output_size)
    /\ output = File(max_output_size)

C9_WitnessOver ==
    /\ pc = "done"
    /\ file_size = max_output_size + 1
    /\ ~result.success
    /\ ~output.exists

\* C10: after a build_gif call that returns a failure no file exists at the
\* output path (none existed before the call).
C10_NoFileAfterFailure ==
    (pc = "done" /\ ~result.success) => ~output.exists
\* C11: a request that reads the output directory finds the output file
\* under its final name only once the encode has returned success; it never
\* finds the file of an encode still running or rejected afterwards.
C11_NoEarlyVisibility ==
    [][(seen' # seen /\ seen'[1].found) => (pc = "done" /\ result.success)]_vars
\* C12: create_preview_gif on a project with n >= 1 frames hands exactly the
\* first min(n, max_frames) frames to the encode, under the settings of the
\* project, and does not fail where build_gif on the truncated project does
\* not: with settings and frames that violate no invariant every one of
\* these frames is resolved and the call does not fail before that.
C12_PreviewEncodesFirstFrames ==
    LET used == frames_to_use(project.frames, preview_limit)
        truncated == [project EXCEPT !.frames = used]
    IN  (/\ entry = "create_preview_gif"
         /\ pc = "done"
         /\ Len(project.frames) >= 1
         /\ InvariantViolations(truncated) = {}) =>
            /\ resolved = [m \in 1..Len(used) |-> m]
            /\ result.message \notin {"Preview creation failed",
                                        "Project has no frames",
                                        "Project validation failed"}
\* a document with name, timestamps, every settings field of the data model
\* and frames that each carry id, file and duration
CompleteDocument(d) ==
    /\ DOMAIN d = {"name", "created", "modified", "settings", "frames"}
    /\ DOMAIN d["settings"] = SettingsKeys \cup TransitionKeys
    /\ \A n \in 1..Len(d["frames"]) :
          DOMAIN d["frames"][n] = {"id", "file", "duration"}

\* C13: for a complete persisted document d, to_dict(from_dict(d)) = d.
C13_RoundTrip ==
    (entry = "from_dict" /\ pc = "done" /\ CompleteDocument(doc)) => dumped = doc
\* a path is the directory `dir` or lies below it
Within(path, dir) ==
    Len(dir) <= Len(path) /\ SubSeq(path, 1, Len(dir)) = dir

\* C14: safe_path raises or returns the session's own directory or a
\* descendant of it, never a path in another directory.
C14_Confined ==
    (entry = "safe_path" /\ pc = "done" /\ ~path_result.raised) =>
        Within(path_result.target, get_session_dir(path_args.session_id))
\* what a build_gif call with request r and session s returns and leaves at
\* its output path when no other call runs
Alone(r, session_id) ==
    LET p == r.project
        tt == Get(p.settings, "transitionTime", DefaultTransitionTime)
        steps == Get(p.settings, "transitionSteps", DefaultTransitionSteps)
        kept == KeepImages(<<>>, p.frames, session_id, 1)
        durs == KeepDurations(<<>>, p.frames, 1)
    IN  IF Checks(p) # NoResult THEN [result |-> Checks(p), file |-> NoGif]
        ELSE IF Len(kept) = 0
        THEN [result |-> Failure("No valid frames to create GIF", <<>>), file |-> NoGif]
        ELSE IF r.io.raises
        THEN [result |-> Failure("GIF creation failed", <<>>),
              file |-> IF r.io.size = 0 THEN NoGif ELSE GifFile(r.io.size, <<>>, <<>>)]
        ELSE IF r.io.size > max_output_size
        THEN [result |-> Failure("Generated GIF exceeds size limit", <<>>),
              file |-> NoGif]
        ELSE [result |-> Success(r.io.size),
              file |-> GifFile(r.io.size, ExpandFrames(kept, tt, steps, 1),
                               ExpandDurations(durs, tt, steps, 1))]

\* C16: of two build_gif calls interleaved on the shared GifBuilder, for
\* different sessions and output paths, each returns the result and leaves
\* the output file it would when run alone.
C16_NoInterference ==
    \A c \in DOMAIN call_pc :
        call_pc[c] = "done" =>
            /\ returned[c] = Alone(requests[c], SessionOf(c)).result
            /\ files[OutputPath(SessionOf(c))] = Alone(requests[c], SessionOf(c)).file

\* both calls ran at the same time, on different projects, and both wrote
\* their GIF
C16_Witness ==
    /\ entry = "concurrent"
    /\ overlapped
    /\ \A c \in Callers : call_pc[c] = "done" /\ returned[c].success
    /\ requests[1].project # requests[2].project
    /\ Len(requests[1].project.frames) = 2
\* C17: in a frame emitted in transparent mode a pixel has the transparency
\* index exactly when its alpha was 0 in the frame handed to to_gif_format.
C17_IndexZeroReserved ==
    (entry = "to_gif_format" /\ pc = "done" /\ ~quantized.raised) =>
        \A k \in 1..Len(image) :
            (quantized.indices[k] = transparency) <=> (image[k].alpha = 0)
\* C18: build_gif and create_preview_gif never raise to the caller; every
\* failure comes back as a result with success = False and a message,
\* build_gif's with file size 0, and a success carries the size of the file.
C18_StructuredResults ==
    /\ pc # "raised"
    /\ (entry \in {"build_gif", "create_preview_gif"} /\ pc = "done") =>
        /\ result.message # NoResult.message
        /\ (Len(project.frames) = 0 \/ Len(validate(project)) # 0) => ~result.success
        /\ (resolved # <<>> /\ prepared_frames = <<>>) => ~result.success
        /\ file_size > max_output_size => ~result.success
        /\ ~result.success => result.file_size = 0
        /\ result.success =>
               output.exists /\ result.file_size = output.size

\* the save raised after writing part of the file and build_gif returned
\* the failure
C18_Witness ==
    /\ entry = "build_gif"
    /\ pc = "done"
    /\ created
    /\ file_size = 0
    /\ result = Failure("GIF creation failed", <<>>)
\* C19: after any sequence of add_frame, remove_frame, reorder_frames and
\* update_frame the ids of the project's frames are pairwise distinct and
\* every frame has the id it was made with.
C19_StableUniqueIds ==
    entry = "project" =>
        /\ \A j, k \in 1..Len(project.frames) :
               j # k => heap[project.frames[j]].id # heap[project.frames[k]].id
        /\ \A k \in 1..Len(project.frames) :
               heap[project.frames[k]].id = created_ids[project.frames[k]]
\* C20: a document sent to /api/generate/full with a transition duration
\* T > 0 and S transition steps is encoded with them: S transition frames
\* follow each main frame and each main frame lasts its duration less T.
C20_RouteAppliesTransitions ==
    (/\ entry = "generate_full"
     /\ pc = "save"
     /\ "transitionTime" \in DOMAIN doc.settings
     /\ doc.settings["transitionTime"] > 0) =>
        LET T == doc.settings["transitionTime"]
            S == doc.settings["transitionSteps"]
        IN  /\ Len(gif_frames) = Len(prepared_frames) * (1 + S)
            /\ \A g \in 1..Len(prepared_frames) :
                   gif_durations[(g - 1) * (1 + S) + 1] = durations[g] - T
\* C21: with transitions enabled, the transition frames after prepared
\* frame g blend frame g into frame g + 1, those after the last prepared
\* frame blend it into the first, and a single prepared frame is blended
\* with itself.
C21_WrapAround ==
    (entry = "build_gif" /\ transition_time > 0) =>
        \A g \in Expanded :
            LET n == Len(prepared_frames)
                follower == IF g = n THEN prepared_frames[1] ELSE prepared_frames[g + 1]
            IN  \A j \in 1..transition_steps :
                    /\ gif_frames[MainIndex(g) + j].of.img1 = prepared_frames[g]
                    /\ gif_frames[MainIndex(g) + j].of.img2 = follower

\* three prepared frames were expanded with transitions, the last group
\* leading back to the first frame
C21_Witness ==
    /\ entry = "build_gif"
    /\ pc = "save"
    /\ transition_time > 0 /\ transition_steps = 3
    /\ Len(prepared_frames) = 3
    /\ gif_frames[Len(gif_frames)].of.img2 = prepared_frames[1]
    /\ gif_frames[Len(gif_frames)].of.img1 = prepared_frames[3]
\* value v lies between a and b, ends included
Between(v, a, b) == (a <= v /\ v <= b) \/ (b <= v /\ v <= a)

\* what create_transition_frames returns for steps >= 1: `steps` frames,
\* the s-th blended with factor s / (steps + 1), the factors increasing and
\* strictly between 0 and 1, every channel between those of the inputs,
\* and the inputs as they were
TransitionFramesAsSpecified ==
    LET a == blend_args
        r == blend_result
    IN  /\ Len(r.frames) = a.steps
        /\ Len(r.rendered) = a.steps
        /\ \A s \in 1..a.steps :
               /\ r.frames[s].num = s /\ r.frames[s].den = a.steps + 1
               /\ 0 < r.frames[s].num /\ r.frames[s].num < r.frames[s].den
               /\ s > 1 => r.frames[s - 1].num * r.frames[s].den
                               < r.frames[s].num * r.frames[s - 1].den
               /\ \A k \in 1..Len(a.img1) :
                      Between(r.rendered[s][k], a.img1[k], a.img2[k])
        /\ r.img1 = a.img1 /\ r.img2 = a.img2

\* C22 as stated: the frames are as above and no transition frame equals
\* either input.
C22_NeverEqualsInput ==
    (entry = "create_transition_frames" /\ pc = "done") =>
        /\ TransitionFramesAsSpecified
        /\ \A s \in 1..blend_args.steps :
               /\ blend_result.rendered[s] # blend_args.img1
               /\ blend_result.rendered[s] # blend_args.img2

\* C22 as amended: the frames are as above; a transition frame may equal an
\* input (it does whenever the two inputs are equal).
C22_TransitionFrames ==
    (entry = "create_transition_frames" /\ pc = "done") =>
        /\ TransitionFramesAsSpecified
        /\ blend_args.img1 = blend_args.img2 =>
               \A s \in 1..blend_args.steps :
                   blend_result.rendered[s] = blend_args.img1

\* three steps between two different images
C22_Witness ==
    /\ entry = "create_transition_frames"
    /\ pc = "done"
    /\ blend_args.steps = 3
    /\ blend_args.img1 = <<0, 100>>
    /\ blend_args.img2 = <<255, 101>>
    /\ blend_result.rendered = <<<<63, 100>>, <<127, 100>>, <<191, 100>>>>
\* C23: prepare_frame with transparent = true turns every pixel of the
\* canvas, padding included, whose alpha is below alphaThreshold into
\* (0,0,0,0) and gives every other pixel alpha 255 with its colour kept, so
\* every alpha of a prepared frame is 0 or 255 and a pixel at the threshold
\* is opaque.
C23_BinaryAlpha ==
    (entry = "prepare_frame" /\ pc = "done") =>
        LET a == prepare_args
            r == prepare_result
            left == (a.target_width - Len(a.img)) \div 2
        IN  /\ Len(r.canvas) = a.target_width
            /\ Len(r.img) = a.target_width
            /\ \A k \in 1..Len(a.img) : r.canvas[left + k] = a.img[k]
            /\ \A k \in 1..a.target_width :
                   /\ (k <= left \/ k > left + Len(a.img)) => r.canvas[k].alpha = 0
                   /\ r.canvas[k].alpha < a.alpha_threshold =>
                          r.img[k] = [color |-> "black", alpha |-> 0]
                   /\ r.canvas[k].alpha >= a.alpha_threshold =>
                          r.img[k] = [color |-> r.canvas[k].color, alpha |-> 255]
                   /\ r.img[k].alpha \in {0, 255}

\* a padded canvas whose image has a pixel exactly at the threshold and one
\* just below it
C23_Witness ==
    /\ entry = "prepare_frame"
    /\ pc = "done"
    /\ prepare_args.alpha_threshold = 128
    /\ prepare_args.target_width = 4
    /\ prepare_args.img = <<[color |-> "red", alpha |-> 128], [color |-> "red", alpha |-> 127]>>
    /\ prepare_result.img = <<[color |-> "black", alpha |-> 0],
                              [color |-> "red", alpha |-> 255],
                              [color |-> "black", alpha |-> 0],
                              [color |-> "black", alpha |-> 0]>>
\* C24: for an existing session can_upload accepts a file exactly when its
\* size is at most max_upload_size, the session holds fewer than max_images
\* images and fewer than max_total_storage bytes, and the bytes held plus
\* the file do not exceed max_total_storage; a refusal names the first of
\* size, count and storage that fails.
C24_CanUpload ==
    (entry = "can_upload" /\ pc = "done") =>
        LET size == quota_args.file_size
            held == quota_args.stats.total_size
            count == quota_args.stats.image_count
            size_ok == size <= max_upload_size
            count_ok == count < max_images
            storage_ok == held < max_total_storage /\ held + size <= max_total_storage
        IN  /\ quota_verdict.allowed <=> (size_ok /\ count_ok /\ storage_ok)
            /\ ~size_ok => quota_verdict.message = "File size exceeds maximum allowed"
            /\ (size_ok /\ ~count_ok) =>
                   quota_verdict.message = "Maximum number of images reached"
            /\ (size_ok /\ count_ok /\ ~storage_ok) =>
                   quota_verdict.message \in
                       {"Storage quota exceeded",
                        "Adding this file would exceed storage quota"}

\* a file of the largest size is accepted as the session's last image, and
\* fills the storage exactly
C24_Witness ==
    /\ entry = "can_upload"
    /\ pc = "done"
    /\ quota_args.file_size = max_upload_size
    /\ quota_args.stats = [total_size |-> max_total_storage - max_upload_size,
                           image_count |-> max_images - 1]
    /\ quota_verdict.allowed
\* the ids of a frame list, in its order
IdsOf(frames) == [k \in 1..Len(frames) |-> heap[frames[k]].id]

\* how often value v occurs in sequence q
Count(q, v) == Cardinality({k \in 1..Len(q) : q[k] = v})

\* sequences p and q hold the same values equally often
IsPermutation(p, q) ==
    /\ Len(p) = Len(q)
    /\ \A k \in 1..Len(p) : Count(p, p[k]) = Count(q, p[k])

\* C25: reorder_frames(ids) with a permutation of the project's frame ids
\* puts the frames in exactly that order, each with its id, file and
\* duration, and with any id list drops no frame from the project.
C25_ReorderKeepsFrames ==
    [][\A frame_ids \in SeqsUpTo(KnownIds, MaxIds) :
           (entry = "project" /\ reorder_frames(frame_ids)) =>
               /\ IsPermutation(frame_ids, IdsOf(project.frames)) =>
                      /\ [k \in 1..Len(project'.frames) |->
                             heap'[project'.frames[k]].id] = frame_ids
                      /\ heap' = heap
               /\ \A k \in 1..Len(project.frames) :
                      \E m \in 1..Len(project'.frames) :
                          project'.frames[m] = project.frames[k]]_vars
\* C26: in a successful build_gif run the emitted frames and durations are
\* equally many, no emitted duration is negative, and the emitted durations
\* add up to the durations of the prepared frames, with or without
\* transitions.
C26_DurationsConserved ==
    (entry = "build_gif" /\ pc = "done" /\ result.success) =>
        /\ Len(gif_frames) = Len(gif_durations)
        /\ \A k \in 1..Len(gif_durations) : gif_durations[k] >= 0
        /\ SumSeq(gif_durations) = SumSeq(durations)

\* a successful run with a transition time that transition_steps does not
\* divide, on a frame exactly as long as the transition
C26_Witness ==
    /\ entry = "build_gif"
    /\ pc = "done" /\ result.success
    /\ transition_time = 7 /\ transition_steps = 3
    /\ Len(prepared_frames) = 2
    /\ SumSeq(gif_durations) = 130
    /\ durations = <<30, 100>>
\* C27: once the upload and generate requests of a session have been
\* answered, in whatever order their steps were taken, the session holds at
\* most max_total_storage bytes and at most max_images files in uploads.
C27_QuotaKept ==
    (entry = "session" /\ \A r \in DOMAIN http : http[r].pc = "done") =>
        /\ get_session_stats(session_files).total_size <= max_total_storage
        /\ get_session_stats(session_files).image_count <= max_images
\* C28: an upload refused for its extension, by the quota or because its
\* image does not validate leaves no file of its own in uploads, and no
\* step of an upload adds, removes or changes a file of another request.
C28_RefusedLeavesNothing ==
    [][\A r \in Uploaders :
          (entry = "session" /\ http'[r] # http[r]) =>
              /\ session_files'.held = session_files.held
              /\ {f \in session_files'.uploads : f.name # r}
                     = {f \in session_files.uploads : f.name # r}
              /\ (http'[r].pc = "done" /\ http'[r].status \in {400, 429}) =>
                     /\ {f \in session_files'.uploads : f.name = r} = {}
                     /\ (\A q \in Uploaders \ {r} : http[q].pc \in {"start", "done"}
                                                    /\ http[q].status # 200
                                                    /\ ~http[q].save_raises) =>
                            session_files'.uploads = {}]_vars

\* an image that was saved and did not validate was refused, next to an
\* upload that was accepted
C28_Witness ==
    /\ entry = "session"
    /\ http[1].pc = "done" /\ http[1].status = 400
    /\ http[1].extension_ok /\ ~http[1].image_ok
    /\ http[2].pc = "done" /\ http[2].status = 200
    /\ session_files.uploads = {StoredFile(2, http[2].size)}
\* the step removes the session directory
Removed == session_dir.exists /\ ~session_dir'.exists

\* C29: cleanup_old_sessions removes a session directory only when its
\* last-modified time is more than session_lifetime in the past, that is
\* when validate_session reports the session expired, and never the
\* directory of a session whose requests were at most session_lifetime
\* apart.
C29_RemovesOnlyExpired ==
    [][(entry = "lifetime" /\ Removed) =>
          /\ clock - session_dir.mtime > session_lifetime
          /\ ~validate_session(session_dir, clock)
          /\ ~(regular /\ clock - last_request <= session_lifetime)]_vars
====
